---- MODULE Spec2Model ----
(***************************************************************************)
(* Order status transition helpers (orderStatusHelpers.js) over the        *)
(* relational store of database/schema.sql: the orders table, the          *)
(* order_status_history table, and the calls in flight against them.       *)
(*                                                                         *)
(* transitionOrderStatus is an async function: it runs synchronously from  *)
(* one await to the next, and other calls may run at each await.  Each     *)
(* action below is one such synchronous segment together with the store    *)
(* query that ends its await.                                              *)
(***************************************************************************)
EXTENDS Integers, Sequences, FiniteSets, TLC

VARIABLES
  orders,    \* orders table: order id -> status column of the row
  history,   \* order_status_history table: the rows in insertion order
  pc,        \* per caller: where its transitionOrderStatus call stands
  call,      \* per caller: arguments and locals of the call in flight
  out,       \* the result a call has just returned and what it printed,
             \* NoOut once the caller has taken it
  started,   \* number of calls that have passed validation so far
  succeeded, \* per order: number of calls that returned success with
             \* idempotent = false
  script,    \* number of calls of the happy-path scenario issued so far
  created_at,\* order_status_history.created_at: per row of history, the
             \* second in which it was inserted
  now,       \* the clock, in whole seconds
  totals,    \* orders table: order id -> total_amount column of the row
  payments,  \* payments table: payment id -> row
  batch,     \* the batch call in flight: its list and the results so far
  seen,      \* the payment id of the last validatePostPaymentState call
             \* whose queries all succeeded, with the first and the latest
             \* report of the run of such calls for that id
  page       \* the ProductDetail page in the browser: its route id, its
             \* state and the requests it has sent

vars ==
  <<orders, history, pc, call, out, started, succeeded, script, created_at,
    now, totals, payments, batch, seen, page>>

\* what the status transition helpers neither read nor write, together with
\* the clock
rest == <<now, totals, payments, batch, seen, page>>

----------------------------------------------------------------------------
(* Bounds *)

\* at most this many calls get past validation in a capped specification
MaxTransitions == 2

\* the clock stops after this many seconds
MaxClock == 2

\* a batch has at most this many entries
MaxBatch == 2

\* a list of payments given to the total payments check has at most this
\* many members
MaxPayments == 2

\* the route of the ProductDetail page changes at most this many times
MaxRoutes == 2

----------------------------------------------------------------------------
(* JavaScript values *)

NULL == "<null>"
NoOut == [op |-> "none"]
NoCall == [orderId |-> 0]
NoError == "<ok>"
NoBatch == [op |-> "none"]
NoReport == [paymentId |-> 0]
NoPage == [id |-> 0]

\* a DECIMAL(10,2) column value, as the driver returns it: the text of a
\* number of hundredths
Decimal(hundredths) == [decimal |-> hundredths]

\* messages of the errors a store query can reject with
StoreErrors == {"ECONNRESET"}
TruncatedError == "Data truncated for column 'status' at row 1"

RECURSIVE Join(_, _)
Join(arr, sep) ==
  IF Len(arr) = 0 THEN ""
  ELSE IF Len(arr) = 1 THEN arr[1]
  ELSE arr[1] \o sep \o Join(Tail(arr), sep)

Includes(arr, x) == \E i \in 1..Len(arr) : arr[i] = x

\* a || b on strings: the empty string is falsy
OrElse(a, b) == IF a = "" THEN b ELSE a

\* destructuring with a default: { key = dflt } = options
Opt(options, key, dflt) == IF key \in DOMAIN options THEN options[key] ELSE dflt

----------------------------------------------------------------------------
(* Constants of the module *)

\* as VALID_TRANSITIONS, but a pending order may go to a status that is not
\* one of ORDER_STATUS
VALID_TRANSITIONS_UnknownSuccessor ==
  [ pending           |-> <<"payment_pending", "cancelled", "bogus">>,
    payment_pending   |-> <<"payment_completed", "cancelled">>,
    payment_completed |-> <<"processing", "refunded">>,
    processing        |-> <<"shipped", "cancelled">>,
    shipped           |-> <<"delivered", "cancelled">>,
    delivered         |-> <<"refunded">>,
    cancelled         |-> <<>>,
    refunded          |-> <<>> ]

\* as VALID_TRANSITIONS, but a cancelled order may go back to processing
VALID_TRANSITIONS_Reopen ==
  [ pending           |-> <<"payment_pending", "cancelled">>,
    payment_pending   |-> <<"payment_completed", "cancelled">>,
    payment_completed |-> <<"processing", "refunded">>,
    processing        |-> <<"shipped", "cancelled">>,
    shipped           |-> <<"delivered", "cancelled">>,
    delivered         |-> <<"refunded">>,
    cancelled         |-> <<"processing">>,
    refunded          |-> <<>> ]

VALID_TRANSITIONS ==
  [ pending           |-> <<"payment_pending", "cancelled">>,
    payment_pending   |-> <<"payment_completed", "cancelled">>,
    payment_completed |-> <<"processing", "refunded">>,
    processing        |-> <<"shipped", "cancelled">>,
    shipped           |-> <<"delivered", "cancelled">>,
    delivered         |-> <<"refunded">>,
    cancelled         |-> <<>>,
    refunded          |-> <<>> ]

ORDER_STATUS ==
  [ PENDING           |-> "pending",
    PAYMENT_PENDING   |-> "payment_pending",
    PAYMENT_COMPLETED |-> "payment_completed",
    PROCESSING        |-> "processing",
    SHIPPED           |-> "shipped",
    DELIVERED         |-> "delivered",
    CANCELLED         |-> "cancelled",
    REFUNDED          |-> "refunded" ]

\* the values the ENUM column orders.status admits
StatusEnum ==
  {"pending", "payment_pending", "payment_completed", "processing",
   "shipped", "delivered", "cancelled", "refunded"}

----------------------------------------------------------------------------
(* validateTransition: pure *)

\* as validateTransition, but a status counts as its own successor
validateTransition_SelfLoop(currentStatus, newStatus) ==
  IF currentStatus \notin DOMAIN VALID_TRANSITIONS
  THEN [valid |-> FALSE,
        reason |-> "Invalid current status: " \o currentStatus]
  ELSE LET allowedTransitions == VALID_TRANSITIONS[currentStatus] IN
       IF ~Includes(allowedTransitions, newStatus) /\ newStatus # currentStatus
       THEN [valid |-> FALSE,
             reason |-> "Cannot transition from " \o currentStatus \o " to "
                        \o newStatus \o ". Allowed: "
                        \o OrElse(Join(allowedTransitions, ", "), "none")]
       ELSE [valid |-> TRUE, reason |-> ""]

validateTransition(currentStatus, newStatus) ==
  IF currentStatus \notin DOMAIN VALID_TRANSITIONS
  THEN [valid |-> FALSE,
        reason |-> "Invalid current status: " \o currentStatus]
  ELSE LET allowedTransitions == VALID_TRANSITIONS[currentStatus] IN
       IF ~Includes(allowedTransitions, newStatus)
       THEN [valid |-> FALSE,
             reason |-> "Cannot transition from " \o currentStatus \o " to "
                        \o newStatus \o ". Allowed: "
                        \o OrElse(Join(allowedTransitions, ", "), "none")]
       ELSE [valid |-> TRUE, reason |-> ""]

----------------------------------------------------------------------------
(* The store *)

\* SELECT status FROM orders WHERE id = ?
SelectStatus(orderId) ==
  IF orderId \in DOMAIN orders THEN <<[status |-> orders[orderId]]>> ELSE <<>>

\* what an ENUM column keeps of a value: a value outside the enumeration is
\* stored as the empty string by a server that is not in strict mode
EnumStored(v) == IF v \in StatusEnum THEN v ELSE ""

\* getCurrentOrderStatus when its query succeeds
getCurrentOrderStatus(orderId) ==
  LET rows == SelectStatus(orderId) IN
  IF Len(rows) = 0 THEN NULL ELSE rows[1].status

\* SELECT * FROM order_status_history WHERE order_id = ? (in insertion order)
HistoryOf(orderId) == SelectSeq(history, LAMBDA row : row.order_id = orderId)

----------------------------------------------------------------------------
(* transitionOrderStatus *)

NotFoundResult(orderId) ==
  [success |-> FALSE,
   message |-> "Order " \o ToString(orderId) \o " not found",
   previousStatus |-> NULL,
   newStatus |-> NULL]

IdempotentResult(orderId, currentStatus, newStatus) ==
  [success |-> TRUE,
   message |-> "Order " \o ToString(orderId) \o " already in status " \o newStatus,
   previousStatus |-> currentStatus,
   newStatus |-> currentStatus,
   idempotent |-> TRUE]

InvalidResult(validation, currentStatus) ==
  [success |-> FALSE,
   message |-> validation.reason,
   previousStatus |-> currentStatus,
   newStatus |-> NULL]

SuccessResult(orderId, currentStatus, newStatus) ==
  [success |-> TRUE,
   message |-> "Order " \o ToString(orderId) \o " transitioned from "
               \o currentStatus \o " to " \o newStatus,
   previousStatus |-> currentStatus,
   newStatus |-> newStatus,
   idempotent |-> FALSE]

\* the catch block of transitionOrderStatus
ErrorResult(error) ==
  [success |-> FALSE,
   message |-> "Error: " \o error,
   previousStatus |-> NULL,
   newStatus |-> NULL,
   error |-> error]

\* as Decision, but force also skips the already-in-target-status check
Decision_ForceSkipsIdempotency(orderId, newStatus, force, currentStatus) ==
  IF currentStatus = NULL
  THEN [proceed |-> FALSE, result |-> NotFoundResult(orderId)]
  ELSE IF currentStatus = newStatus /\ ~force
  THEN [proceed |-> FALSE,
        result |-> IdempotentResult(orderId, currentStatus, newStatus)]
  ELSE IF ~force /\ ~validateTransition(currentStatus, newStatus).valid
  THEN [proceed |-> FALSE,
        result |-> InvalidResult(validateTransition(currentStatus, newStatus),
                                 currentStatus)]
  ELSE [proceed |-> TRUE]

\* as Decision, but validation only checks that the target is a known status
Decision_ChecksVocabularyOnly(orderId, newStatus, force, currentStatus) ==
  IF currentStatus = NULL
  THEN [proceed |-> FALSE, result |-> NotFoundResult(orderId)]
  ELSE IF currentStatus = newStatus
  THEN [proceed |-> FALSE,
        result |-> IdempotentResult(orderId, currentStatus, newStatus)]
  ELSE IF ~force /\ newStatus \notin DOMAIN VALID_TRANSITIONS
  THEN [proceed |-> FALSE,
        result |-> InvalidResult(validateTransition(currentStatus, newStatus),
                                 currentStatus)]
  ELSE [proceed |-> TRUE]

\* as Decision, but without the check for a missing order
Decision_NoNullCheck(orderId, newStatus, force, currentStatus) ==
  IF currentStatus = newStatus
  THEN [proceed |-> FALSE,
        result |-> IdempotentResult(orderId, currentStatus, newStatus)]
  ELSE IF ~force /\ ~validateTransition(currentStatus, newStatus).valid
  THEN [proceed |-> FALSE,
        result |-> InvalidResult(validateTransition(currentStatus, newStatus),
                                 currentStatus)]
  ELSE [proceed |-> TRUE]

\* the synchronous code between the status read and the UPDATE: either the
\* call returns `result`, or it goes on to write
Decision(orderId, newStatus, force, currentStatus) ==
  IF currentStatus = NULL
  THEN [proceed |-> FALSE, result |-> NotFoundResult(orderId)]
  ELSE IF currentStatus = newStatus
  THEN [proceed |-> FALSE,
        result |-> IdempotentResult(orderId, currentStatus, newStatus)]
  ELSE IF ~force /\ ~validateTransition(currentStatus, newStatus).valid
  THEN [proceed |-> FALSE,
        result |-> InvalidResult(validateTransition(currentStatus, newStatus),
                                 currentStatus)]
  ELSE [proceed |-> TRUE]

\* the call of caller c returns `result`, having printed `console`
Return(c, orderId, newStatus, options, result, console) ==
  /\ pc' = [pc EXCEPT ![c] = "idle"]
  /\ call' = [call EXCEPT ![c] = NoCall]
  /\ out' = [op |-> "transitionOrderStatus", orderId |-> orderId,
             newStatus |-> newStatus, force |-> Opt(options, "force", FALSE),
             threw |-> FALSE, result |-> result, console |-> console]

\* The awaiting caller takes the returned result.  A result touches no store
\* data, so handing it over before the next step of any call loses no
\* behaviour of the store.
TakeResult ==
  /\ out # NoOut
  /\ out' = NoOut
  /\ UNCHANGED <<orders, history, pc, call, started, succeeded, script,
                 created_at, rest>>

\* the call, its status read and everything up to the next await or return
transitionOrderStatus(c, orderId, newStatus, options, err, capped) ==
  /\ out = NoOut
  /\ pc[c] = "idle"
  /\ LET changedBy == Opt(options, "changedBy", "system")
         reason == Opt(options, "reason", "")
         force == Opt(options, "force", FALSE)
         d == Decision(orderId, newStatus, force, getCurrentOrderStatus(orderId))
     IN
     IF err # NoError
     THEN /\ Return(c, orderId, newStatus, options, ErrorResult(err),
                    <<"Error fetching order status for order "
                        \o ToString(orderId) \o ":",
                      "Error transitioning order " \o ToString(orderId) \o ":">>)
          /\ UNCHANGED <<orders, history, started, succeeded, created_at>>
     ELSE IF ~d.proceed
     THEN /\ Return(c, orderId, newStatus, options, d.result, <<>>)
          /\ UNCHANGED <<orders, history, started, succeeded, created_at>>
     ELSE /\ capped => started < MaxTransitions
          /\ started' = IF capped THEN started + 1 ELSE started
          /\ pc' = [pc EXCEPT ![c] = "update"]
          /\ call' = [call EXCEPT ![c] =
                        [orderId |-> orderId, newStatus |-> newStatus,
                         options |-> options, changedBy |-> changedBy,
                         reason |-> reason,
                         currentStatus |-> getCurrentOrderStatus(orderId)]]
          /\ out' = NoOut
          /\ UNCHANGED <<orders, history, succeeded, created_at>>

\* as UpdateOrderStatus, but the UPDATE has no WHERE clause: it sets the
\* status of every order
UpdateOrderStatus_EveryRow(c, err, strict) ==
  /\ out = NoOut
  /\ pc[c] = "update"
  /\ LET a == call[c]
         failure == IF err # NoError THEN err
                    ELSE IF strict /\ a.newStatus \notin StatusEnum
                    THEN TruncatedError
                    ELSE NoError
     IN
     IF failure # NoError
     THEN /\ Return(c, a.orderId, a.newStatus, a.options, ErrorResult(failure),
                    <<"Error transitioning order " \o ToString(a.orderId) \o ":">>)
          /\ UNCHANGED <<orders, history, started, succeeded, created_at>>
     ELSE /\ orders' = [o \in DOMAIN orders |-> EnumStored(a.newStatus)]
          /\ pc' = [pc EXCEPT ![c] = "log"]
          /\ out' = NoOut
          /\ UNCHANGED <<history, call, started, succeeded, created_at>>

\* as UpdateOrderStatus, but a failing UPDATE has changed the row all the same
UpdateOrderStatus_WritesThenFails(c, err, strict) ==
  /\ out = NoOut
  /\ pc[c] = "update"
  /\ LET a == call[c]
         failure == IF err # NoError THEN err
                    ELSE IF strict /\ a.newStatus \notin StatusEnum
                    THEN TruncatedError
                    ELSE NoError
     IN
     IF failure # NoError
     THEN /\ Return(c, a.orderId, a.newStatus, a.options, ErrorResult(failure),
                    <<"Error transitioning order " \o ToString(a.orderId) \o ":">>)
          /\ orders' = [orders EXCEPT ![a.orderId] = EnumStored(a.newStatus)]
          /\ UNCHANGED <<history, started, succeeded, created_at>>
     ELSE /\ orders' = [orders EXCEPT ![a.orderId] = EnumStored(a.newStatus)]
          /\ pc' = [pc EXCEPT ![c] = "log"]
          /\ out' = NoOut
          /\ UNCHANGED <<history, call, started, succeeded, created_at>>

\* await pool.query("UPDATE orders SET status = ?, updated_at = NOW() WHERE id = ?")
\* `strict`: the server's sql_mode rejects a value outside the ENUM
UpdateOrderStatus(c, err, strict) ==
  /\ out = NoOut
  /\ pc[c] = "update"
  /\ LET a == call[c]
         failure == IF err # NoError THEN err
                    ELSE IF strict /\ a.newStatus \notin StatusEnum
                    THEN TruncatedError
                    ELSE NoError
     IN
     IF failure # NoError
     THEN /\ Return(c, a.orderId, a.newStatus, a.options, ErrorResult(failure),
                    <<"Error transitioning order " \o ToString(a.orderId) \o ":">>)
          /\ UNCHANGED <<orders, history, started, succeeded, created_at>>
     ELSE /\ orders' = [orders EXCEPT ![a.orderId] = EnumStored(a.newStatus)]
          /\ pc' = [pc EXCEPT ![c] = "log"]
          /\ out' = NoOut
          /\ UNCHANGED <<history, call, started, succeeded, created_at>>

\* as logStatusChange, but the row's previous status is the status the order
\* has when the row is written
logStatusChange_RereadsStatus(c, err) ==
  /\ out = NoOut
  /\ pc[c] = "log"
  /\ LET a == call[c]
         row == [order_id |-> a.orderId, previous_status |-> orders[a.orderId],
                 new_status |-> a.newStatus, changed_by |-> a.changedBy,
                 reason |-> a.reason]
     IN
     /\ history' = IF err = NoError THEN Append(history, row) ELSE history
     /\ created_at' = IF err = NoError THEN Append(created_at, now)
                      ELSE created_at
     /\ Return(c, a.orderId, a.newStatus, a.options,
               SuccessResult(a.orderId, a.currentStatus, a.newStatus),
               IF err = NoError THEN <<>>
               ELSE <<"Error logging status change for order "
                      \o ToString(a.orderId) \o ":">>)
     /\ succeeded' = [succeeded EXCEPT ![a.orderId] = @ + 1]
     /\ UNCHANGED <<orders, started>>

\* as logStatusChange, but a failing INSERT puts the previous status back and
\* the call reports the failure
logStatusChange_RollsBack(c, err) ==
  /\ out = NoOut
  /\ pc[c] = "log"
  /\ LET a == call[c]
         row == [order_id |-> a.orderId, previous_status |-> a.currentStatus,
                 new_status |-> a.newStatus, changed_by |-> a.changedBy,
                 reason |-> a.reason]
     IN
     IF err = NoError
     THEN /\ history' = Append(history, row)
          /\ created_at' = Append(created_at, now)
          /\ Return(c, a.orderId, a.newStatus, a.options,
                    SuccessResult(a.orderId, a.currentStatus, a.newStatus), <<>>)
          /\ succeeded' = [succeeded EXCEPT ![a.orderId] = @ + 1]
          /\ UNCHANGED <<orders, started>>
     ELSE /\ orders' = [orders EXCEPT ![a.orderId] = a.currentStatus]
          /\ Return(c, a.orderId, a.newStatus, a.options, ErrorResult(err),
                    <<"Error logging status change for order "
                      \o ToString(a.orderId) \o ":">>)
          /\ UNCHANGED <<history, created_at, started, succeeded>>

\* await logStatusChange(...) and the return that follows it
logStatusChange(c, err) ==
  /\ out = NoOut
  /\ pc[c] = "log"
  /\ LET a == call[c]
         row == [order_id |-> a.orderId, previous_status |-> a.currentStatus,
                 new_status |-> a.newStatus, changed_by |-> a.changedBy,
                 reason |-> a.reason]
     IN
     /\ history' = IF err = NoError THEN Append(history, row) ELSE history
     /\ created_at' = IF err = NoError THEN Append(created_at, now)
                      ELSE created_at
     /\ Return(c, a.orderId, a.newStatus, a.options,
               SuccessResult(a.orderId, a.currentStatus, a.newStatus),
               IF err = NoError THEN <<>>
               ELSE <<"Error logging status change for order "
                      \o ToString(a.orderId) \o ":">>)
     /\ succeeded' = [succeeded EXCEPT ![a.orderId] = @ + 1]
     /\ UNCHANGED <<orders, started>>

\* a direct call of the exported validateTransition
validateTransitionCall(currentStatus, newStatus) ==
  /\ out = NoOut
  /\ out' = [op |-> "validateTransition", currentStatus |-> currentStatus,
             newStatus |-> newStatus, threw |-> FALSE,
             result |-> validateTransition(currentStatus, newStatus)]
  /\ UNCHANGED <<orders, history, pc, call, started, succeeded, script,
                 created_at, rest>>

----------------------------------------------------------------------------
(* The read operations of orderStatusHelpers.js *)

\* everything no read operation assigns
untouched ==
  <<orders, history, pc, call, started, succeeded, script, created_at, rest>>

\* as Preview, but without the already-in-target-status branch
Preview_NoIdempotentBranch(orderId, targetStatus, currentStatus) ==
  IF currentStatus = NULL
  THEN [canTransition |-> FALSE,
        reason |-> "Order " \o ToString(orderId) \o " not found",
        currentStatus |-> NULL]
  ELSE LET validation == validateTransition(currentStatus, targetStatus) IN
       [canTransition |-> validation.valid,
        reason |-> OrElse(validation.reason, "Transition is valid"),
        currentStatus |-> currentStatus]

\* the try block of canTransitionTo after its status read
Preview(orderId, targetStatus, currentStatus) ==
  IF currentStatus = NULL
  THEN [canTransition |-> FALSE,
        reason |-> "Order " \o ToString(orderId) \o " not found",
        currentStatus |-> NULL]
  ELSE IF currentStatus = targetStatus
  THEN [canTransition |-> TRUE,
        reason |-> "Already in status " \o targetStatus,
        currentStatus |-> currentStatus,
        idempotent |-> TRUE]
  ELSE LET validation == validateTransition(currentStatus, targetStatus) IN
       [canTransition |-> validation.valid,
        reason |-> OrElse(validation.reason, "Transition is valid"),
        currentStatus |-> currentStatus]

\* the whole call: one status read, then synchronous code
canTransitionTo(orderId, targetStatus, err) ==
  /\ out = NoOut
  /\ out' = [op |-> "canTransitionTo", orderId |-> orderId,
             targetStatus |-> targetStatus, threw |-> FALSE,
             result |-> IF err # NoError
                        THEN [canTransition |-> FALSE,
                              reason |-> "Error: " \o err,
                              currentStatus |-> NULL]
                        ELSE Preview(orderId, targetStatus,
                                     getCurrentOrderStatus(orderId)),
             console |-> IF err # NoError
                         THEN <<"Error fetching order status for order "
                                \o ToString(orderId) \o ":">>
                         ELSE <<>>]
  /\ UNCHANGED untouched

\* a direct call of the exported getCurrentOrderStatus: a failing query is
\* logged and thrown again
getCurrentOrderStatusCall(orderId, err) ==
  /\ out = NoOut
  /\ out' = IF err # NoError
            THEN [op |-> "getCurrentOrderStatus", orderId |-> orderId,
                  threw |-> TRUE, error |-> err,
                  console |-> <<"Error fetching order status for order "
                                \o ToString(orderId) \o ":">>]
            ELSE [op |-> "getCurrentOrderStatus", orderId |-> orderId,
                  threw |-> FALSE, result |-> getCurrentOrderStatus(orderId),
                  console |-> <<>>]
  /\ UNCHANGED untouched

\* the positions in history of the rows of an order
HistoryIds(orderId) ==
  {i \in 1..Len(history) : history[i].order_id = orderId}

\* row i of order_status_history with all its columns; the AUTO_INCREMENT id
\* is the position of the row
HistoryRow(i) ==
  [id |-> i, order_id |-> history[i].order_id,
   previous_status |-> history[i].previous_status,
   new_status |-> history[i].new_status,
   changed_by |-> history[i].changed_by, reason |-> history[i].reason,
   created_at |-> created_at[i]]

\* ORDER BY created_at DESC: the orders in which the server may return the
\* rows S; rows with equal created_at come in any order
OrderByCreatedAtDesc(S) ==
  {q \in [1..Cardinality(S) -> S] :
     /\ \A i, j \in DOMAIN q : i # j => q[i] # q[j]
     /\ \A i, j \in DOMAIN q : i < j => created_at[q[i]] >= created_at[q[j]]}

\* the whole call; a failing query is logged and thrown again
getOrderStatusHistory(orderId, err) ==
  /\ out = NoOut
  /\ IF err # NoError
     THEN out' = [op |-> "getOrderStatusHistory", orderId |-> orderId,
                  threw |-> TRUE, error |-> err,
                  console |-> <<"Error fetching status history for order "
                                \o ToString(orderId) \o ":">>]
     ELSE \E q \in OrderByCreatedAtDesc(HistoryIds(orderId)) :
            out' = [op |-> "getOrderStatusHistory", orderId |-> orderId,
                    threw |-> FALSE,
                    result |-> [k \in DOMAIN q |-> HistoryRow(q[k])],
                    console |-> <<>>]
  /\ UNCHANGED untouched

\* a second passes on the server's clock
Tick ==
  /\ out = NoOut
  /\ now < MaxClock
  /\ now' = now + 1
  /\ UNCHANGED <<orders, history, pc, call, out, started, succeeded, script,
                 created_at, totals, payments, batch, seen, page>>

----------------------------------------------------------------------------
(* paymentValidationHelpers.js: numbers and rows *)

\* A JavaScript number is an IEEE 754 double.  The double with the value
\* (h * 2^59 + x) / (100 * 2^59) is kept as [h |-> h, x |-> x]: h hundredths
\* and x units of 2^-59 hundredths, where h is the hundredth nearest to the
\* value.  The amounts of the model are below 1024.00, so every double met
\* is a multiple of 2^-59 and every intermediate result fits in 32 bits.
\* Messages and data fields show a number to the nearest hundredth.
Pow2(n) == 2 ^ n

\* 2^n modulo m, for 30 <= n <= 60 and m <= 100
Pow2Mod(n, m) == ((Pow2(15) % m) * (Pow2(15) % m) * (Pow2(n - 30) % m)) % m

\* 2^e <= h / 100, for h hundredths
Reaches(h, e) == IF e >= 0 THEN 100 * Pow2(e) <= h ELSE 100 <= h * Pow2(0 - e)

\* the binary exponent of h hundredths, for 0.01 <= h / 100 < 2^17: the
\* largest e with 2^e <= h / 100
Exponent(h) == CHOOSE e \in (0 - 7)..16 : Reaches(h, e) /\ ~Reaches(h, e + 1)

\* the binary exponent of the value ax units above ah hundredths, whose
\* hundredths have the exponent e0: one less when the hundredths are a power
\* of two and the units are below zero
ExponentBelow(ah, ax, e0) ==
  IF ax < 0 /\ e0 >= 0 - 2 /\ 4 * ah = 100 * Pow2(e0 + 2) THEN e0 - 1 ELSE e0

\* the units of the nearest multiple of ulp, ties to the even multiple, for a
\* value of ax units that is over units above a multiple of ulp, an odd
\* multiple when odd
RoundAt(ax, ulp, over, odd) ==
  IF 2 * over < ulp \/ (2 * over = ulp /\ ~odd) THEN ax - over
  ELSE ax + ulp - over

\* the same, for a value that is over2 units above a multiple of 2 * ulp
RoundOver(ax, ulp, over2) == RoundAt(ax, ulp, over2 % ulp, over2 >= ulp)

\* the same, for the value ax units above ah hundredths at binary exponent e
RoundWithUlp(ah, ax, e, ulp) ==
  RoundOver(ax, ulp,
            (Pow2(e + 8) * (((ah % 100) * Pow2Mod(51 - e, 100)) % 100) + ax)
              % (2 * ulp))

\* the doubles with binary exponent e are the multiples of 2^(e-52), that is
\* of ulp = 100 * 2^(e+7) units
RoundWithExponent(ah, ax, e) == RoundWithUlp(ah, ax, e, 100 * Pow2(e + 7))

\* the units of the double nearest to ax units above ah > 0 hundredths
RoundMagnitude(ah, ax) ==
  RoundWithExponent(ah, ax, ExponentBelow(ah, ax, Exponent(ah)))

\* round to nearest, ties to even: the double nearest to the value
\* (h * 2^59 + x) / (100 * 2^59), which is what parsing a decimal text and
\* every addition and subtraction of doubles return
RoundToDouble(h, x) ==
  IF h = 0 THEN [h |-> 0, x |-> x]
  ELSE IF h < 0 THEN [h |-> h, x |-> 0 - RoundMagnitude(0 - h, 0 - x)]
  ELSE [h |-> h, x |-> RoundMagnitude(h, x)]

\* the double nearest to h hundredths
Double(h) == RoundToDouble(h, 0)

\* parseFloat(v) for the text v of a decimal number
parseFloat(v) == Double(v.decimal)

\* isNaN(parseFloat(v)): v is not the text of a number
ParsesToNaN(v) == "decimal" \notin DOMAIN v

\* a + b, a - b, a < b and Math.abs(a) on doubles
Plus(a, b) == RoundToDouble(a.h + b.h, a.x + b.x)
Minus(a, b) == RoundToDouble(a.h - b.h, a.x - b.x)
Less(a, b) == a.h < b.h \/ (a.h = b.h /\ a.x < b.x)
MathAbs(a) ==
  IF a.h < 0 \/ (a.h = 0 /\ a.x < 0) THEN [h |-> 0 - a.h, x |-> 0 - a.x]
  ELSE a

\* the hundredth nearest to the double a
Hundredths(a) == a.h

Abs(n) == IF n < 0 THEN 0 - n ELSE n

\* const tolerance = 0.01
tolerance == Double(1)

\* `${n}` for a number n
NumStr(n) ==
  LET whole == Abs(n) \div 100
      frac == Abs(n) % 100
  IN (IF n < 0 THEN "-" ELSE "")
     \o ToString(whole)
     \o (IF frac = 0 THEN ""
         ELSE IF frac % 10 = 0 THEN "." \o ToString(frac \div 10)
         ELSE IF frac < 10 THEN ".0" \o ToString(frac)
         ELSE "." \o ToString(frac))

\* strings of white space only, and s.trim() for the strings of the model
BlankStrings == {"", " ", "   "}
Trim(s) == IF s \in BlankStrings THEN "" ELSE s

\* new Date().toISOString() in second t of the clock
toISOString(t) == "1970-01-01T00:00:0" \o ToString(t) \o ".000Z"

\* as ObjectAssign, but nothing is copied
ObjectAssign_CopiesNothing(target, source) == target

\* Object.assign(target, source)
ObjectAssign(target, source) ==
  [k \in DOMAIN target \cup DOMAIN source |->
     IF k \in DOMAIN source THEN source[k] ELSE target[k]]

\* array.filter(test), on a sequence
Filter(arr, Test(_)) == SelectSeq(arr, Test)

RECURSIVE SumAmounts(_)
\* arr.reduce((sum, p) => sum + parseFloat(p.amount), 0)
SumAmounts(arr) ==
  IF Len(arr) = 0 THEN Double(0)
  ELSE Plus(SumAmounts(SubSeq(arr, 1, Len(arr) - 1)),
            parseFloat(arr[Len(arr)].amount))

RECURSIVE RowsOf(_, _)
\* the rows of table (a function from id to row) with an id in ids, by id
RowsOf(table, ids) ==
  IF ids = {} THEN <<>>
  ELSE LET last == CHOOSE i \in ids : \A j \in ids : j <= i IN
       Append(RowsOf(table, ids \ {last}), table[last])

\* null where the code expects an object (a row, a payment, an order)
null == [null |-> TRUE]

\* {}
EmptyObject == [k \in {} |-> NULL]

\* SELECT * FROM payments WHERE id = ?
getPaymentById(paymentId) ==
  IF paymentId \in DOMAIN payments THEN payments[paymentId] ELSE null

\* SELECT * FROM orders WHERE id = ?
getOrderById(orderId) ==
  IF orderId \in DOMAIN orders
  THEN [id |-> orderId, total_amount |-> totals[orderId],
        status |-> orders[orderId]]
  ELSE null

\* SELECT * FROM payments WHERE order_id = ?
getPaymentsByOrderId(orderId) ==
  RowsOf(payments, {i \in DOMAIN payments : payments[i].order_id = orderId})

\* as CountOtherPayments, but without AND id != ?
CountOtherPayments_CountsItself(transaction_id, id) ==
  Cardinality({i \in DOMAIN payments :
                 payments[i].transaction_id = transaction_id})

\* SELECT COUNT(*) FROM payments WHERE transaction_id = ? AND id != ?
CountOtherPayments(transaction_id, id) ==
  Cardinality({i \in DOMAIN payments :
                 /\ payments[i].transaction_id = transaction_id
                 /\ i # id})

----------------------------------------------------------------------------
(* paymentValidationHelpers.js: the validators *)

\* as Verdict, but a warning makes the result invalid as well
Verdict_WarningsCount(errors, warnings, data) ==
  [valid |-> Len(errors) = 0 /\ Len(warnings) = 0, errors |-> errors,
   warnings |-> warnings, data |-> data]

\* return { valid: errors.length === 0, errors, warnings, data }
Verdict(errors, warnings, data) ==
  [valid |-> Len(errors) = 0, errors |-> errors, warnings |-> warnings,
   data |-> data]

\* errors.push(message); return { valid: false, errors, warnings, data: {} }
Missing(message) ==
  [valid |-> FALSE, errors |-> <<message>>, warnings |-> <<>>,
   data |-> EmptyObject]

validatePaymentAmount(payment, order) ==
  IF payment = null \/ order = null
  THEN Missing("Payment or order data missing")
  ELSE
  LET paymentAmount == parseFloat(payment.amount)
      orderAmount == parseFloat(order.total_amount)
  IN
  IF ParsesToNaN(payment.amount) \/ ParsesToNaN(order.total_amount)
  THEN Missing("Invalid amount format")
  ELSE
  LET difference == MathAbs(Minus(paymentAmount, orderAmount))
      errors == IF Less(tolerance, difference)
                THEN <<"Payment amount (" \o NumStr(Hundredths(paymentAmount))
                       \o ") does not match order total ("
                       \o NumStr(Hundredths(orderAmount)) \o ")">>
                ELSE <<>>
      warnings == IF Less(paymentAmount, orderAmount)
                  THEN <<"Payment amount is less than order total">>
                  ELSE IF Less(orderAmount, paymentAmount)
                  THEN <<"Payment amount is greater than order total">>
                  ELSE <<>>
  IN Verdict(errors, warnings,
             [paymentAmount |-> Hundredths(paymentAmount),
              orderAmount |-> Hundredths(orderAmount),
              difference |-> Hundredths(difference)])

\* as validatePaymentStatus, but only completed passes without a warning
validatePaymentStatus_OnlyCompleted(payment) ==
  IF payment = null THEN Missing("Payment data missing")
  ELSE
  LET invalidStatuses == <<"pending", "failed">>
      errors == IF Includes(invalidStatuses, payment.status)
                THEN <<"Payment status '" \o payment.status
                       \o "' is invalid for post-payment validation">>
                ELSE <<>>
      warnings == IF ~Includes(invalidStatuses, payment.status)
                     /\ payment.status # "completed"
                  THEN <<"Unexpected payment status: " \o payment.status>>
                  ELSE <<>>
  IN Verdict(errors, warnings, [paymentStatus |-> payment.status])

validatePaymentStatus(payment) ==
  IF payment = null THEN Missing("Payment data missing")
  ELSE
  LET validPostPaymentStatuses == <<"completed", "processing">>
      invalidStatuses == <<"pending", "failed">>
      errors == IF Includes(invalidStatuses, payment.status)
                THEN <<"Payment status '" \o payment.status
                       \o "' is invalid for post-payment validation">>
                ELSE <<>>
      warnings == IF ~Includes(invalidStatuses, payment.status)
                     /\ ~Includes(validPostPaymentStatuses, payment.status)
                  THEN <<"Unexpected payment status: " \o payment.status>>
                  ELSE <<>>
  IN Verdict(errors, warnings, [paymentStatus |-> payment.status])

\* as validateOrderStatus, but every status that is not a post-payment
\* status is an error
validateOrderStatus_OthersAreErrors(order) ==
  IF order = null THEN Missing("Order data missing")
  ELSE
  LET validPostPaymentStatuses ==
        <<"payment_completed", "processing", "shipped", "delivered">>
      errors == IF ~Includes(validPostPaymentStatuses, order.status)
                THEN <<"Order status '" \o order.status
                       \o "' is inconsistent with completed payment">>
                ELSE <<>>
  IN Verdict(errors, <<>>, [orderStatus |-> order.status])

validateOrderStatus(order) ==
  IF order = null THEN Missing("Order data missing")
  ELSE
  LET validPostPaymentStatuses ==
        <<"payment_completed", "processing", "shipped", "delivered">>
      invalidStatuses == <<"pending", "payment_pending">>
      errors == IF Includes(invalidStatuses, order.status)
                THEN <<"Order status '" \o order.status
                       \o "' is inconsistent with completed payment">>
                ELSE <<>>
      warnings == IF ~Includes(invalidStatuses, order.status)
                     /\ ~Includes(validPostPaymentStatuses, order.status)
                  THEN <<"Order status '" \o order.status
                         \o "' may need review after payment">>
                  ELSE <<>>
  IN Verdict(errors, warnings, [orderStatus |-> order.status])

\* as validateTransactionId, but a failure of the uniqueness query is
\* swallowed
validateTransactionId_SwallowsFailure(payment, err) ==
  IF payment = null THEN Missing("Payment data missing")
  ELSE IF payment.transaction_id = NULL \/ Trim(payment.transaction_id) = ""
  THEN Missing("Transaction ID is missing")
  ELSE
  LET errors ==
        IF err = NoError
           /\ CountOtherPayments(payment.transaction_id, payment.id) > 0
        THEN <<"Duplicate transaction ID found: " \o payment.transaction_id>>
        ELSE <<>>
  IN Verdict(errors, <<>>, [transactionId |-> payment.transaction_id])

\* err: how the uniqueness query ends, when it is made
validateTransactionId(payment, err) ==
  IF payment = null THEN Missing("Payment data missing")
  ELSE IF payment.transaction_id = NULL \/ Trim(payment.transaction_id) = ""
  THEN Missing("Transaction ID is missing")
  ELSE
  LET errors ==
        IF err # NoError
        THEN <<"Error checking transaction ID uniqueness: " \o err>>
        ELSE IF CountOtherPayments(payment.transaction_id, payment.id) > 0
        THEN <<"Duplicate transaction ID found: " \o payment.transaction_id>>
        ELSE <<>>
  IN Verdict(errors, <<>>, [transactionId |-> payment.transaction_id])

\* rows: the payments argument; an absent list takes the branch of the empty
\* list (!payments || payments.length === 0) and is the empty sequence here
validateTotalPayments(rows, order) ==
  IF order = null THEN Missing("Order data missing")
  ELSE IF Len(rows) = 0
  THEN Missing("No payments found for order")
  ELSE
  LET IsCompleted(p) == p.status = "completed"
      completedPayments == Filter(rows, IsCompleted)
      totalPaid == SumAmounts(completedPayments)
      orderAmount == parseFloat(order.total_amount)
      tooLittle == Less(totalPaid, Minus(orderAmount, tolerance))
      tooMuch == Less(Plus(orderAmount, tolerance), totalPaid)
      errors == IF tooLittle
                THEN <<"Total payments (" \o NumStr(Hundredths(totalPaid))
                       \o ") less than order amount ("
                       \o NumStr(Hundredths(orderAmount)) \o ")">>
                ELSE <<>>
      warnings == IF ~tooLittle /\ tooMuch
                  THEN <<"Total payments (" \o NumStr(Hundredths(totalPaid))
                         \o ") exceeds order amount ("
                         \o NumStr(Hundredths(orderAmount)) \o ")">>
                  ELSE <<>>
  IN Verdict(errors, warnings,
             [totalPaid |-> Hundredths(totalPaid),
              orderAmount |-> Hundredths(orderAmount),
              completedPayments |-> Len(completedPayments),
              totalPayments |-> Len(rows)])

\* as Caught, but the errors collected before the failure are dropped
Caught_DropsCollected(errors, warnings, data, error) ==
  [valid |-> FALSE, errors |-> <<"Validation error: " \o error>>,
   warnings |-> warnings, data |-> data]

\* the catch block of validatePostPaymentState and of
\* validateOrderReadyForPayment
Caught(errors, warnings, data, error) ==
  [valid |-> FALSE, errors |-> Append(errors, "Validation error: " \o error),
   warnings |-> warnings, data |-> data]

\* what validatePostPaymentState returns when it starts in second ts and its
\* queries end as errPayment (getPaymentById), errOrder (getOrderById), errTxn
\* (the uniqueness query) and errAll (getPaymentsByOrderId) say.  Each query
\* reads the store as it is: no operation of the program writes the payments
\* table or total_amount, and the order row is read once.
PostPaymentReport(paymentId, ts, errPayment, errOrder, errTxn, errAll) ==
  LET data0 == [paymentId |-> paymentId, timestamp |-> toISOString(ts)]
      payment == getPaymentById(paymentId)
  IN
  IF errPayment # NoError
  THEN Caught(<<>>, <<>>, data0, errPayment)
  ELSE IF payment = null
  THEN [valid |-> FALSE,
        errors |-> <<"Payment " \o ToString(paymentId) \o " not found">>,
        warnings |-> <<>>, data |-> data0]
  ELSE
  LET data1 == ObjectAssign(data0,
                 [payment |-> [id |-> payment.id, orderId |-> payment.order_id,
                               amount |-> payment.amount,
                               status |-> payment.status]])
      order == getOrderById(payment.order_id)
  IN
  IF errOrder # NoError
  THEN Caught(<<>>, <<>>, data1, errOrder)
  ELSE IF order = null
  THEN [valid |-> FALSE,
        errors |-> <<"Order " \o ToString(payment.order_id)
                     \o " not found for payment " \o ToString(paymentId)>>,
        warnings |-> <<>>, data |-> data1]
  ELSE
  LET data2 == ObjectAssign(data1,
                 [order |-> [id |-> order.id,
                             totalAmount |-> order.total_amount,
                             status |-> order.status]])
      paymentStatusValidation == validatePaymentStatus(payment)
      orderStatusValidation == validateOrderStatus(order)
      amountValidation == validatePaymentAmount(payment, order)
      transactionValidation == validateTransactionId(payment, errTxn)
      errors4 == paymentStatusValidation.errors \o orderStatusValidation.errors
                 \o amountValidation.errors \o transactionValidation.errors
      warnings4 == paymentStatusValidation.warnings
                   \o orderStatusValidation.warnings
                   \o amountValidation.warnings
                   \o transactionValidation.warnings
      data4 == ObjectAssign(ObjectAssign(data2, amountValidation.data),
                            transactionValidation.data)
      totalPaymentsValidation ==
        validateTotalPayments(getPaymentsByOrderId(payment.order_id), order)
  IN
  IF errAll # NoError
  THEN Caught(errors4, warnings4, data4, errAll)
  ELSE Verdict(errors4 \o totalPaymentsValidation.errors,
               warnings4 \o totalPaymentsValidation.warnings,
               ObjectAssign(data4, totalPaymentsValidation.data))

\* as validatePostPaymentState, but a repeated validation of the same payment
\* is reported with a warning
validatePostPaymentState_WarnsOnRepeat(paymentId, errPayment, errOrder, errTxn, errAll) ==
  /\ out = NoOut
  /\ out' = [op |-> "validatePostPaymentState", paymentId |-> paymentId,
             queries |-> <<errPayment, errOrder, errTxn, errAll>>,
             threw |-> FALSE,
             result |->
               LET r == PostPaymentReport(paymentId, now, errPayment, errOrder,
                                          errTxn, errAll)
               IN IF seen.paymentId = paymentId
                  THEN [r EXCEPT !.warnings = Append(@, "Validated before")]
                  ELSE r]
  /\ UNCHANGED <<orders, history, pc, call, started, succeeded, script,
                 created_at, now, totals, payments, page>>

\* the whole call of validatePostPaymentState
validatePostPaymentState(paymentId, errPayment, errOrder, errTxn, errAll) ==
  /\ out = NoOut
  /\ out' = [op |-> "validatePostPaymentState", paymentId |-> paymentId,
             queries |-> <<errPayment, errOrder, errTxn, errAll>>,
             threw |-> FALSE,
             result |-> PostPaymentReport(paymentId, now, errPayment, errOrder,
                                          errTxn, errAll)]
  /\ UNCHANGED <<orders, history, pc, call, started, succeeded, script,
                 created_at, now, totals, payments, page>>

\* what validateOrderReadyForPayment returns
\* as ReadyForPaymentReport, but the amount is looked at only when the status
\* is fine
ReadyForPaymentReport_StopsAtFirstError(orderId, err) ==
  LET data == [orderId |-> orderId]
      order == getOrderById(orderId)
      validStatuses == <<"pending", "payment_pending">>
  IN
  IF err # NoError
  THEN Caught(<<>>, <<>>, data, err)
  ELSE IF order = null
  THEN [valid |-> FALSE,
        errors |-> <<"Order " \o ToString(orderId) \o " not found">>,
        warnings |-> <<>>, data |-> data]
  ELSE
  LET errors ==
        IF ~Includes(validStatuses, order.status)
        THEN <<"Order status '" \o order.status
               \o "' not ready for payment. Expected: "
               \o Join(validStatuses, " or ")>>
        ELSE IF ~Less(Double(0), parseFloat(order.total_amount))
        THEN <<"Order amount must be greater than zero">>
        ELSE <<>>
  IN Verdict(errors, <<>>,
             ObjectAssign(data, [orderStatus |-> order.status,
                                 orderAmount |-> order.total_amount]))

\* what validateOrderReadyForPayment returns when its query ends as err says
ReadyForPaymentReport(orderId, err) ==
  LET data == [orderId |-> orderId]
      order == getOrderById(orderId)
      validStatuses == <<"pending", "payment_pending">>
  IN
  IF err # NoError
  THEN Caught(<<>>, <<>>, data, err)
  ELSE IF order = null
  THEN [valid |-> FALSE,
        errors |-> <<"Order " \o ToString(orderId) \o " not found">>,
        warnings |-> <<>>, data |-> data]
  ELSE
  LET errors ==
        (IF ~Includes(validStatuses, order.status)
         THEN <<"Order status '" \o order.status
                \o "' not ready for payment. Expected: "
                \o Join(validStatuses, " or ")>>
         ELSE <<>>)
        \o (IF ~Less(Double(0), parseFloat(order.total_amount))
            THEN <<"Order amount must be greater than zero">>
            ELSE <<>>)
  IN Verdict(errors, <<>>,
             ObjectAssign(data, [orderStatus |-> order.status,
                                 orderAmount |-> order.total_amount]))

\* as validateOrderReadyForPayment, but an order found ready is moved to
\* payment_pending
validateOrderReadyForPayment_MarksOrder(orderId, err) ==
  /\ out = NoOut
  /\ out' = [op |-> "validateOrderReadyForPayment", orderId |-> orderId,
             queries |-> <<err>>, threw |-> FALSE,
             result |-> ReadyForPaymentReport(orderId, err)]
  /\ orders' = IF ReadyForPaymentReport(orderId, err).valid
               THEN [orders EXCEPT ![orderId] = "payment_pending"]
               ELSE orders
  /\ UNCHANGED <<history, pc, call, started, succeeded, script, created_at,
                 rest>>

\* the whole call of validateOrderReadyForPayment
validateOrderReadyForPayment(orderId, err) ==
  /\ out = NoOut
  /\ out' = [op |-> "validateOrderReadyForPayment", orderId |-> orderId,
             queries |-> <<err>>, threw |-> FALSE,
             result |-> ReadyForPaymentReport(orderId, err)]
  /\ UNCHANGED untouched

\* validateTransactionId(payment) gets as far as its query
QueriesUniqueness(payment) ==
  /\ payment # null
  /\ payment.transaction_id # NULL
  /\ Trim(payment.transaction_id) # ""

\* a direct call of the exported validateTransactionId; queries tells how
\* the query of the call ended, when the call made it
validateTransactionIdCall(payment, err) ==
  /\ out = NoOut
  /\ out' = [op |-> "validateTransactionId", payment |-> payment,
             queries |-> IF QueriesUniqueness(payment) THEN <<err>> ELSE <<>>,
             threw |-> FALSE, result |-> validateTransactionId(payment, err)]
  /\ UNCHANGED untouched

\* direct calls of the exported validatePaymentAmount, validatePaymentStatus,
\* validateOrderStatus and validateTotalPayments
validatePaymentAmountCall(payment, order) ==
  /\ out = NoOut
  /\ out' = [op |-> "validatePaymentAmount", payment |-> payment,
             order |-> order, threw |-> FALSE,
             result |-> validatePaymentAmount(payment, order)]
  /\ UNCHANGED untouched

validatePaymentStatusCall(payment) ==
  /\ out = NoOut
  /\ out' = [op |-> "validatePaymentStatus", payment |-> payment,
             threw |-> FALSE, result |-> validatePaymentStatus(payment)]
  /\ UNCHANGED untouched

validateOrderStatusCall(order) ==
  /\ out = NoOut
  /\ out' = [op |-> "validateOrderStatus", order |-> order,
             threw |-> FALSE, result |-> validateOrderStatus(order)]
  /\ UNCHANGED untouched

validateTotalPaymentsCall(rows, order) ==
  /\ out = NoOut
  /\ out' = [op |-> "validateTotalPayments", payments |-> rows,
             order |-> order, threw |-> FALSE,
             result |-> validateTotalPayments(rows, order)]
  /\ UNCHANGED untouched

----------------------------------------------------------------------------
(* The batch operations of both modules *)

\* results.push({ orderId: transition.orderId, ...result })
\* results.push({ paymentId, ...result })
Tagged(key, id, result) == ObjectAssign([k \in {key} |-> id], result)

\* as Pushed, but only successful results are pushed
Pushed_DropsFailures(b, key, o) ==
  IF o = NoOut THEN b
  ELSE [b EXCEPT !.done = @ + 1,
                 !.results =
                   IF \/ "success" \in DOMAIN o.result /\ o.result.success
                      \/ "valid" \in DOMAIN o.result /\ o.result.valid
                   THEN Append(@, Tagged(key, b.list[b.done + 1][key],
                                         o.result))
                   ELSE @]

\* the batch after a step of the call for its current entry: when the call
\* has returned (o is its result), the tagged result is pushed and the loop
\* moves on
Pushed(b, key, o) ==
  IF o = NoOut THEN b
  ELSE [b EXCEPT !.done = @ + 1,
                 !.results = Append(@, Tagged(key, b.list[b.done + 1][key],
                                              o.result))]

\* batchTransitionOrders(transitions), up to its loop
batchTransitionOrders(c, transitions) ==
  /\ out = NoOut
  /\ batch = NoBatch
  /\ pc[c] = "idle"
  /\ batch' = [op |-> "batchTransitionOrders", caller |-> c,
               list |-> transitions, done |-> 0, results |-> <<>>,
               before |-> orders, queries |-> <<>>]
  /\ UNCHANGED <<orders, history, pc, call, out, started, succeeded, script,
                 created_at, now, totals, payments, seen, page>>

\* the loop of batchTransitionOrders calls transitionOrderStatus for the
\* next entry
NextTransition(err) ==
  /\ batch.op = "batchTransitionOrders"
  /\ batch.done < Len(batch.list)
  /\ LET transition == batch.list[batch.done + 1] IN
     transitionOrderStatus(batch.caller, transition.orderId,
                           transition.newStatus,
                           Opt(transition, "options", EmptyObject), err, TRUE)
  /\ batch' = Pushed(batch, "orderId", out')
  /\ UNCHANGED <<script, now, totals, payments, seen, page>>

\* the call for the current entry runs its UPDATE
TransitionUpdates(err, strict) ==
  /\ batch.op = "batchTransitionOrders"
  /\ UpdateOrderStatus(batch.caller, err, strict)
  /\ batch' = Pushed(batch, "orderId", out')
  /\ UNCHANGED <<script, now, totals, payments, seen, page>>

\* the call for the current entry logs the change and returns
TransitionLogs(err) ==
  /\ batch.op = "batchTransitionOrders"
  /\ logStatusChange(batch.caller, err)
  /\ batch' = Pushed(batch, "orderId", out')
  /\ UNCHANGED <<script, now, totals, payments, seen, page>>

\* batchValidatePayments(paymentIds), up to its loop
batchValidatePayments(paymentIds) ==
  /\ out = NoOut
  /\ batch = NoBatch
  /\ batch' = [op |-> "batchValidatePayments", caller |-> "none",
               list |-> [i \in DOMAIN paymentIds |->
                           [paymentId |-> paymentIds[i]]],
               done |-> 0, results |-> <<>>, before |-> orders,
               queries |-> <<>>]
  /\ UNCHANGED <<orders, history, pc, call, out, started, succeeded, script,
                 created_at, now, totals, payments, seen, page>>

\* the loop of batchValidatePayments calls validatePostPaymentState for the
\* next payment id; q is how the queries of that call end
NextValidation(q) ==
  /\ batch.op = "batchValidatePayments"
  /\ batch.done < Len(batch.list)
  /\ validatePostPaymentState(batch.list[batch.done + 1].paymentId,
                              q[1], q[2], q[3], q[4])
  /\ batch' = [Pushed(batch, "paymentId", out') EXCEPT
                 !.queries = Append(@, q)]
  /\ UNCHANGED seen

\* return results
BatchReturns ==
  /\ out = NoOut
  /\ batch # NoBatch
  /\ batch.done = Len(batch.list)
  /\ out' = [op |-> batch.op, list |-> batch.list, threw |-> FALSE,
             result |-> batch.results, before |-> batch.before,
             queries |-> batch.queries]
  /\ batch' = NoBatch
  /\ UNCHANGED <<orders, history, pc, call, started, succeeded, script,
                 created_at, now, totals, payments, seen, page>>

----------------------------------------------------------------------------
(* Inputs *)

\* strings passed to validateTransition: the vocabulary and strings outside it
StatusStrings == StatusEnum \cup {"bogus", "", "PENDING", "toString"}

EmptyOptions == [k \in {} |-> TRUE]

AdminOverride ==
  [changedBy |-> "admin", reason |-> "manual correction", force |-> TRUE]

Targets == StatusEnum \cup {"bogus"}

\* the (newStatus, options) pairs callers pass: every target with the default
\* options, and the administrative override that reopens an order or passes
\* a value outside the vocabulary
DefaultRequests == {<<t, EmptyOptions>> : t \in Targets}
ForcedRequests == {<<t, AdminOverride>> : t \in {"pending", "bogus"}}
Requests == DefaultRequests \cup ForcedRequests

QueryOutcomes == {NoError} \cup StoreErrors

\* the targets of testScenarios.happyPath, in order
HappyPath ==
  <<"payment_pending", "payment_completed", "processing", "shipped",
    "delivered">>

\* the callers the overview names
Callers == {"webhook", "admin"}

\* order ids with a row in the orders table, and one id without a row
OrderIds == {1, 2}
MissingId == 3

----------------------------------------------------------------------------
(* Specifications *)

Init ==
  /\ orders = [id \in OrderIds |-> "pending"]
  /\ history = <<>>
  /\ pc = [c \in Callers |-> "idle"]
  /\ call = [c \in Callers |-> NoCall]
  /\ out = NoOut
  /\ started = 0
  /\ succeeded = [id \in OrderIds |-> 0]
  /\ script = 0
  /\ created_at = <<>>
  /\ now = 0
  /\ totals = [id \in OrderIds |-> Decimal(10000)]
  /\ payments = <<>>
  /\ batch = NoBatch
  /\ seen = NoReport
  /\ page = NoPage

\* any callers, their calls interleaved at the awaits
Next ==
  \/ TakeResult
  \/ \E c \in Callers :
       \/ \E orderId \in OrderIds \cup {MissingId}, req \in Requests,
             err \in QueryOutcomes :
            /\ transitionOrderStatus(c, orderId, req[1], req[2], err, TRUE)
            /\ UNCHANGED <<script, rest>>
       \/ \E err \in QueryOutcomes, strict \in BOOLEAN :
            UpdateOrderStatus(c, err, strict) /\ UNCHANGED <<script, rest>>
       \/ \E err \in QueryOutcomes :
            logStatusChange(c, err) /\ UNCHANGED <<script, rest>>

Spec == Init /\ [][Next]_vars

\* calls made one after another: a call starts when no call is in flight
Quiet == \A c \in Callers : pc[c] = "idle"

NextSeq ==
  \/ TakeResult
  \/ \E c \in Callers :
       \/ \E orderId \in OrderIds \cup {MissingId}, req \in Requests,
             err \in QueryOutcomes :
            /\ Quiet
            /\ transitionOrderStatus(c, orderId, req[1], req[2], err, TRUE)
            /\ UNCHANGED <<script, rest>>
       \/ \E err \in QueryOutcomes, strict \in BOOLEAN :
            UpdateOrderStatus(c, err, strict) /\ UNCHANGED <<script, rest>>
       \/ \E err \in QueryOutcomes :
            logStatusChange(c, err) /\ UNCHANGED <<script, rest>>

SeqSpec == Init /\ [][NextSeq]_vars

\* interleaved calls, none of them forced
NextRace ==
  \/ TakeResult
  \/ \E c \in Callers :
       \/ \E orderId \in OrderIds \cup {MissingId}, req \in DefaultRequests,
             err \in QueryOutcomes :
            /\ transitionOrderStatus(c, orderId, req[1], req[2], err, TRUE)
            /\ UNCHANGED <<script, rest>>
       \/ \E err \in QueryOutcomes, strict \in BOOLEAN :
            UpdateOrderStatus(c, err, strict) /\ UNCHANGED <<script, rest>>
       \/ \E err \in QueryOutcomes :
            logStatusChange(c, err) /\ UNCHANGED <<script, rest>>

RaceSpec == Init /\ [][NextRace]_vars

\* testScenarios.happyPath: the webhook walks order 1 through HappyPath, one
\* call after the other, while the admin works on order 2; no query fails
NextHappy ==
  \/ TakeResult
  \/ /\ script < Len(HappyPath)
     /\ transitionOrderStatus("webhook", 1, HappyPath[script + 1],
                              EmptyOptions, NoError, FALSE)
     /\ script' = script + 1
     /\ UNCHANGED rest
  \/ \E req \in Requests :
       /\ transitionOrderStatus("admin", 2, req[1], req[2], NoError, TRUE)
       /\ UNCHANGED <<script, rest>>
  \/ \E c \in Callers :
       \/ \E strict \in BOOLEAN :
            UpdateOrderStatus(c, NoError, strict) /\ UNCHANGED <<script, rest>>
       \/ logStatusChange(c, NoError) /\ UNCHANGED <<script, rest>>

HappySpec == Init /\ [][NextHappy]_vars

\* direct calls of the pure validator
NextValidate ==
  \/ TakeResult
  \/ \E currentStatus \in StatusStrings, newStatus \in StatusStrings :
       validateTransitionCall(currentStatus, newStatus)

ValidateSpec == Init /\ [][NextValidate]_vars

\* how the four queries of a validatePostPaymentState call may end: all
\* succeed, or one of them fails, or the uniqueness query and the last read
\* both fail (a failure of the first or second read ends the call)
AllSucceed == <<NoError, NoError, NoError, NoError>>
QueryRuns ==
  {AllSucceed}
  \cup {[i \in 1..4 |-> IF i = k THEN e ELSE NoError] :
          k \in 1..4, e \in StoreErrors}
  \cup {<<NoError, NoError, e, e>> : e \in StoreErrors}

\* payment ids with a row in some payments table, and one id without a row
PaymentIds == {1, 2}
MissingPaymentId == 3

\* the rows payment 1 may be: a full or a partial payment of order 1, settled
\* or not, with or without a transaction id, or a payment of an order whose
\* row is gone
Payment1Rows ==
  {[id |-> 1, order_id |-> 1, amount |-> Decimal(a), status |-> st,
    transaction_id |-> tx] :
     a \in {6000, 10000}, st \in {"completed", "pending", "refunded"},
     tx \in {"tx-1", "   ", NULL}}
  \cup {[id |-> 1, order_id |-> MissingId, amount |-> Decimal(10000),
          status |-> "completed", transaction_id |-> "tx-1"]}

\* the rows payment 2 may be: a further payment of order 1
Payment2Rows ==
  {[id |-> 2, order_id |-> 1, amount |-> Decimal(a), status |-> st,
    transaction_id |-> "tx-2"] :
     a \in {4000}, st \in {"completed", "failed"}}

\* the payments tables: payment 1 alone, or payments 1 and 2
PaymentTables ==
  {[i \in {1} |-> r1] : r1 \in Payment1Rows}
  \cup {[i \in PaymentIds |-> IF i = 1 THEN r1 ELSE r2] :
          r1 \in Payment1Rows, r2 \in Payment2Rows}

\* a store with payments: order 1 (total 100.00) somewhere in its life, order 2
\* new and unpaid
InitPay ==
  /\ \E st \in {"pending", "payment_completed", "cancelled"} :
       orders = [id \in OrderIds |-> IF id = 1 THEN st ELSE "pending"]
  /\ totals = [id \in OrderIds |-> IF id = 1 THEN Decimal(10000) ELSE Decimal(0)]
  /\ payments \in PaymentTables
  /\ history = <<>>
  /\ created_at = <<>>
  /\ now = 0
  /\ pc = [c \in Callers |-> "idle"]
  /\ call = [c \in Callers |-> NoCall]
  /\ out = NoOut
  /\ started = 0
  /\ succeeded = [id \in OrderIds |-> 0]
  /\ script = 0
  /\ batch = NoBatch
  /\ seen = NoReport
  /\ page = NoPage

\* the validators called again and again on a store nobody writes
NextPay ==
  \/ TakeResult
  \/ Tick
  \/ \E paymentId \in PaymentIds \cup {MissingPaymentId}, q \in QueryRuns :
       /\ validatePostPaymentState(paymentId, q[1], q[2], q[3], q[4])
       /\ seen' =
            IF q # AllSucceed THEN seen
            ELSE [paymentId |-> paymentId,
                  first |-> IF seen.paymentId = paymentId THEN seen.first
                            ELSE out'.result,
                  latest |-> out'.result]
       /\ UNCHANGED batch
  \/ \E orderId \in OrderIds \cup {MissingId}, err \in QueryOutcomes :
       validateOrderReadyForPayment(orderId, err)
  \/ \E paymentId \in DOMAIN payments, err \in QueryOutcomes :
       validateTransactionIdCall(payments[paymentId], err)

PaySpec == InitPay /\ [][NextPay]_vars

RECURSIVE SeqsUpTo(_, _)
\* the sequences of at most n members of S
SeqsUpTo(S, n) ==
  IF n = 0 THEN {<<>>}
  ELSE SeqsUpTo(S, n - 1)
       \cup {Append(q, x) : q \in {r \in SeqsUpTo(S, n - 1) : Len(r) = n - 1},
                            x \in S}

\* the entries of the batches: legal and illegal targets, an order without a
\* row, entries with and without options
TransitionEntries ==
  {[orderId |-> 1, newStatus |-> "payment_pending"],
   [orderId |-> 1, newStatus |-> "payment_completed"],
   [orderId |-> 1, newStatus |-> "shipped"],
   [orderId |-> 2, newStatus |-> "refunded",
    options |-> [changedBy |-> "admin", reason |-> "chargeback"]],
   [orderId |-> MissingId, newStatus |-> "cancelled"]}

\* order 1 is new; order 2 (total 100.00) was paid in two parts
InitBatch ==
  /\ orders = [id \in OrderIds |->
                IF id = 2 THEN "payment_completed" ELSE "pending"]
  /\ totals = [id \in OrderIds |-> Decimal(10000)]
  /\ payments =
       [i \in PaymentIds |->
          [id |-> i, order_id |-> 2,
           amount |-> IF i = 1 THEN Decimal(6000) ELSE Decimal(4000),
           status |-> "completed",
           transaction_id |-> IF i = 1 THEN "tx-1" ELSE "tx-2"]]
  /\ history =
       <<[order_id |-> 2, previous_status |-> "pending",
          new_status |-> "payment_pending", changed_by |-> "system",
          reason |-> ""],
         [order_id |-> 2, previous_status |-> "payment_pending",
          new_status |-> "payment_completed", changed_by |-> "system",
          reason |-> ""]>>
  /\ created_at = <<0, 0>>
  /\ now = 0
  /\ pc = [c \in Callers |-> "idle"]
  /\ call = [c \in Callers |-> NoCall]
  /\ out = NoOut
  /\ started = 0
  /\ succeeded = [id \in OrderIds |-> IF id = 2 THEN 2 ELSE 0]
  /\ script = 0
  /\ batch = NoBatch
  /\ seen = NoReport
  /\ page = NoPage

\* how the queries of a call inside batchValidatePayments may end: all
\* succeed, the first read fails, or the last read fails
BatchQueryRuns ==
  {AllSucceed}
  \cup {[i \in 1..4 |-> IF i = k THEN e ELSE NoError] :
          k \in {1, 4}, e \in StoreErrors}

\* one batch after the other, by one caller, and the validators called
\* directly in between
NextBatch ==
  \/ TakeResult
  \/ \E transitions \in SeqsUpTo(TransitionEntries, MaxBatch) :
       batchTransitionOrders("admin", transitions)
  \/ \E err \in QueryOutcomes : NextTransition(err)
  \/ \E err \in QueryOutcomes, strict \in BOOLEAN :
       TransitionUpdates(err, strict)
  \/ \E err \in QueryOutcomes : TransitionLogs(err)
  \/ \E paymentIds \in SeqsUpTo(PaymentIds \cup {MissingPaymentId}, MaxBatch) :
       batchValidatePayments(paymentIds)
  \/ \E q \in BatchQueryRuns : NextValidation(q)
  \/ BatchReturns
  \/ \E paymentId \in PaymentIds \cup {MissingPaymentId}, q \in QueryRuns :
       /\ batch = NoBatch
       /\ validatePostPaymentState(paymentId, q[1], q[2], q[3], q[4])
       /\ UNCHANGED <<batch, seen, page>>
  \/ \E orderId \in OrderIds \cup {MissingId}, err \in QueryOutcomes :
       batch = NoBatch /\ validateOrderReadyForPayment(orderId, err)
  \/ \E paymentId \in DOMAIN payments, err \in QueryOutcomes :
       batch = NoBatch /\ validateTransactionIdCall(payments[paymentId], err)

BatchSpec == InitBatch /\ [][NextBatch]_vars

\* an orders table some way into its life: order 1 is new, order 2 was paid
\* (two history rows, written in the seconds 0 and 1)
InitLedger ==
  /\ orders = [id \in OrderIds |->
                IF id = 2 THEN "payment_completed" ELSE "pending"]
  /\ history =
       <<[order_id |-> 2, previous_status |-> "pending",
          new_status |-> "payment_pending", changed_by |-> "system",
          reason |-> ""],
         [order_id |-> 2, previous_status |-> "payment_pending",
          new_status |-> "payment_completed", changed_by |-> "system",
          reason |-> ""]>>
  /\ created_at = <<0, 1>>
  /\ now = 1
  /\ pc = [c \in Callers |-> "idle"]
  /\ call = [c \in Callers |-> NoCall]
  /\ out = NoOut
  /\ started = 0
  /\ succeeded = [id \in OrderIds |-> IF id = 2 THEN 2 ELSE 0]
  /\ script = 0
  /\ totals = [id \in OrderIds |-> Decimal(10000)]
  /\ payments = <<>>
  /\ batch = NoBatch
  /\ seen = NoReport
  /\ page = NoPage

\* the read operations next to the non-forced transitions of one caller,
\* while the clock runs
NextLedger ==
  \/ TakeResult
  \/ Tick
  \/ \E orderId \in OrderIds \cup {MissingId}, err \in QueryOutcomes :
       \/ \E targetStatus \in StatusStrings :
            canTransitionTo(orderId, targetStatus, err)
       \/ getCurrentOrderStatusCall(orderId, err)
       \/ getOrderStatusHistory(orderId, err)
  \/ \E orderId \in OrderIds, req \in DefaultRequests :
       /\ transitionOrderStatus("webhook", orderId, req[1], req[2], NoError,
                                TRUE)
       /\ UNCHANGED <<script, rest>>
  \/ UpdateOrderStatus("webhook", NoError, TRUE) /\ UNCHANGED <<script, rest>>
  \/ logStatusChange("webhook", NoError) /\ UNCHANGED <<script, rest>>

LedgerSpec == InitLedger /\ [][NextLedger]_vars

\* amounts as the driver returns a DECIMAL(10,2) column: decimal texts with
\* two places; amounts one hundredth apart, small and large, are among them
AmountTexts ==
  {Decimal(h) : h \in {0, 1, 3, 4, 9999, 10000, 10001, 15000}}

\* a text that is no number
NotANumber == [text |-> "abc"]

\* the values of payments.status, and strings outside the ENUM
PaymentStatusEnum ==
  {"pending", "processing", "completed", "failed", "refunded"}
PaymentStatusStrings == PaymentStatusEnum \cup {"", "COMPLETED", "bogus"}

\* the payment and order arguments of the amount check
AmountPayments ==
  {null} \cup {[amount |-> a] : a \in AmountTexts \cup {NotANumber}}
AmountOrders ==
  {null} \cup {[total_amount |-> a] : a \in AmountTexts \cup {NotANumber}}

\* the payments of the lists given to the total payments check, and the
\* orders they are checked against
ListedPayments ==
  {[amount |-> Decimal(h), status |-> st] :
     h \in {6, 5000, 10000}, st \in {"completed", "pending"}}
TotalOrders ==
  {null} \cup {[total_amount |-> Decimal(h)] : h \in {7, 10000, 10001}}

\* the payment arguments of the transaction id check: rows of the table, a
\* payment that is not in the table yet, with a fresh, a used, a blank or no
\* transaction id, and no payment
NewPayments ==
  {[id |-> MissingPaymentId, order_id |-> 2, amount |-> Decimal(4000),
    status |-> "processing", transaction_id |-> tx] :
     tx \in {"tx-1", "tx-3", "", "   ", NULL}}

\* a store with two completed payments of order 2
InitPure == InitBatch

\* the pure validators and validateTransactionId called directly, one call
\* after the other
NextPure ==
  \/ TakeResult
  \/ \E payment \in AmountPayments, order \in AmountOrders :
       validatePaymentAmountCall(payment, order)
  \/ \E payment \in {null} \cup {[status |-> st] : st \in PaymentStatusStrings} :
       validatePaymentStatusCall(payment)
  \/ \E order \in {null} \cup {[status |-> st] : st \in StatusStrings} :
       validateOrderStatusCall(order)
  \/ \E rows \in SeqsUpTo(ListedPayments, MaxPayments), order \in TotalOrders :
       validateTotalPaymentsCall(rows, order)
  \/ \E payment \in {null} \cup NewPayments
                      \cup {payments[i] : i \in DOMAIN payments},
        err \in QueryOutcomes :
       validateTransactionIdCall(payment, err)

PureSpec == InitPure /\ [][NextPure]_vars

\* totals an order may have: DECIMAL(10,2) holds negative amounts and zero
OrderTotals == {Decimal(0 - 500), Decimal(0), Decimal(1), Decimal(10000)}

\* two orders in any status of the ENUM and with any of the totals, no
\* payment yet
InitReady ==
  /\ orders \in [OrderIds -> StatusEnum]
  /\ totals \in [OrderIds -> OrderTotals]
  /\ payments = <<>>
  /\ history = <<>>
  /\ created_at = <<>>
  /\ now = 0
  /\ pc = [c \in Callers |-> "idle"]
  /\ call = [c \in Callers |-> NoCall]
  /\ out = NoOut
  /\ started = 0
  /\ succeeded = [id \in OrderIds |-> 0]
  /\ script = 0
  /\ batch = NoBatch
  /\ seen = NoReport
  /\ page = NoPage

\* the check made before a payment is completed
NextReady ==
  \/ TakeResult
  \/ \E orderId \in OrderIds \cup {MissingId}, err \in QueryOutcomes :
       validateOrderReadyForPayment(orderId, err)

ReadySpec == InitReady /\ [][NextReady]_vars

\* the administrative override with every target
AllForcedRequests == {<<t, AdminOverride>> : t \in Targets}

\* order 1 in any status of the ENUM, order 2 pending, no history yet
InitForce ==
  /\ orders \in {[id \in OrderIds |-> IF id = 1 THEN s ELSE "pending"] :
                   s \in StatusEnum}
  /\ history = <<>>
  /\ pc = [c \in Callers |-> "idle"]
  /\ call = [c \in Callers |-> NoCall]
  /\ out = NoOut
  /\ started = 0
  /\ succeeded = [id \in OrderIds |-> 0]
  /\ script = 0
  /\ created_at = <<>>
  /\ now = 0
  /\ totals = [id \in OrderIds |-> Decimal(10000)]
  /\ payments = <<>>
  /\ batch = NoBatch
  /\ seen = NoReport
  /\ page = NoPage

\* calls made one after another, the webhook's without force on any order and
\* the admin's with force on order 1, and no query fails: the server either
\* accepts every value for the ENUM column (not strict) or the value written
\* is one of the ENUM
NextForce ==
  \/ TakeResult
  \/ \E orderId \in OrderIds \cup {MissingId}, req \in DefaultRequests :
       /\ Quiet
       /\ transitionOrderStatus("webhook", orderId, req[1], req[2], NoError,
                                TRUE)
       /\ UNCHANGED <<script, rest>>
  \/ \E orderId \in {1, MissingId}, req \in AllForcedRequests :
       /\ Quiet
       /\ transitionOrderStatus("admin", orderId, req[1], req[2], NoError,
                                TRUE)
       /\ UNCHANGED <<script, rest>>
  \/ \E c \in Callers, strict \in BOOLEAN :
       /\ pc[c] = "update"
       /\ strict => call[c].newStatus \in StatusEnum
       /\ UpdateOrderStatus(c, NoError, strict)
       /\ UNCHANGED <<script, rest>>
  \/ \E c \in Callers :
       logStatusChange(c, NoError) /\ UNCHANGED <<script, rest>>

ForceSpec == InitForce /\ [][NextForce]_vars

\* calls without force made one after another, status reads and updates
\* failing or not, history inserts succeeding: the webhook's on order 1 and
\* on the id without a row, as many as it likes, the admin's on order 2
NextWalk ==
  \/ TakeResult
  \/ \E orderId \in {1, MissingId}, req \in DefaultRequests,
        err \in QueryOutcomes :
       /\ Quiet
       /\ transitionOrderStatus("webhook", orderId, req[1], req[2], err, FALSE)
       /\ UNCHANGED <<script, rest>>
  \/ \E req \in DefaultRequests, err \in QueryOutcomes :
       /\ Quiet
       /\ transitionOrderStatus("admin", 2, req[1], req[2], err, TRUE)
       /\ UNCHANGED <<script, rest>>
  \/ \E c \in Callers, err \in QueryOutcomes, strict \in BOOLEAN :
       UpdateOrderStatus(c, err, strict) /\ UNCHANGED <<script, rest>>
  \/ \E c \in Callers :
       logStatusChange(c, NoError) /\ UNCHANGED <<script, rest>>

WalkSpec == Init /\ [][NextWalk]_vars

\* the preview next to the non-forced transitions of one caller, on order 1
\* in any status and order 2 pending, queries failing or not
NextCheck ==
  \/ TakeResult
  \/ \E orderId \in OrderIds \cup {MissingId}, targetStatus \in StatusStrings,
        err \in QueryOutcomes :
       canTransitionTo(orderId, targetStatus, err)
  \/ \E orderId \in OrderIds \cup {MissingId}, req \in DefaultRequests,
        err \in QueryOutcomes :
       /\ transitionOrderStatus("webhook", orderId, req[1], req[2], err, TRUE)
       /\ UNCHANGED <<script, rest>>
  \/ \E err \in QueryOutcomes, strict \in BOOLEAN :
       UpdateOrderStatus("webhook", err, strict) /\ UNCHANGED <<script, rest>>
  \/ \E err \in QueryOutcomes :
       logStatusChange("webhook", err) /\ UNCHANGED <<script, rest>>

CheckSpec == InitForce /\ [][NextCheck]_vars

\* the options processPaymentCompletion passes
PaymentCompleted ==
  [changedBy |-> "payment-webhook", reason |-> "Payment completed successfully"]

\* the first two steps of processPaymentCompletion on orders in any status
\* and with any total: the readiness check and the transition to
\* payment_completed, queries failing or not
NextCompletion ==
  \/ TakeResult
  \/ \E orderId \in OrderIds \cup {MissingId}, err \in QueryOutcomes :
       validateOrderReadyForPayment(orderId, err)
  \/ \E orderId \in OrderIds \cup {MissingId}, err \in QueryOutcomes :
       /\ transitionOrderStatus("webhook", orderId,
                                ORDER_STATUS.PAYMENT_COMPLETED,
                                PaymentCompleted, err, TRUE)
       /\ UNCHANGED <<script, rest>>
  \/ \E err \in QueryOutcomes, strict \in BOOLEAN :
       UpdateOrderStatus("webhook", err, strict) /\ UNCHANGED <<script, rest>>
  \/ \E err \in QueryOutcomes :
       logStatusChange("webhook", err) /\ UNCHANGED <<script, rest>>

CompletionSpec == InitReady /\ [][NextCompletion]_vars

\* the order status check next to calls without force made one after
\* another, status reads and updates failing or not, history inserts
\* succeeding: the webhook's on the paid order 2, as many as it likes, the
\* admin's on the new order 1
NextPaid ==
  \/ TakeResult
  \/ \E orderId \in OrderIds : validateOrderStatusCall(getOrderById(orderId))
  \/ \E req \in DefaultRequests, err \in QueryOutcomes :
       /\ Quiet
       /\ transitionOrderStatus("webhook", 2, req[1], req[2], err, FALSE)
       /\ UNCHANGED <<script, rest>>
  \/ \E req \in DefaultRequests, err \in QueryOutcomes :
       /\ Quiet
       /\ transitionOrderStatus("admin", 1, req[1], req[2], err, TRUE)
       /\ UNCHANGED <<script, rest>>
  \/ \E c \in Callers, err \in QueryOutcomes, strict \in BOOLEAN :
       UpdateOrderStatus(c, err, strict) /\ UNCHANGED <<script, rest>>
  \/ \E c \in Callers :
       logStatusChange(c, NoError) /\ UNCHANGED <<script, rest>>

PaidSpec == InitLedger /\ [][NextPaid]_vars

\* any callers, their calls interleaved at the awaits, on a store with
\* payments and history
FrameSpec == InitBatch /\ [][Next]_vars

----------------------------------------------------------------------------
(* src/pages/ProductDetail.jsx over getProductById of the product service *)

\* the ids a route /product/:id may carry
ProductIds == {1, 2, 3}

\* the JSON the API answers for the product with this id
ProductOf(id) == [id |-> id, name |-> "product " \o ToString(id)]

\* everything the page neither reads nor writes
backend ==
  <<orders, history, pc, call, out, started, succeeded, script, created_at,
    now, totals, payments, batch, seen>>

\* the page rendered for a route with this id: the initial state of the
\* component, and its effect run up to the await (setLoading(true), then
\* the request of getProductById is sent)
Mounted(id) ==
  [id |-> id, product |-> null, loading |-> TRUE, error |-> NULL,
   requests |-> <<[id |-> id, state |-> "pending"]>>, console |-> <<>>]

\* the route id changes: the component renders again with the new id and,
\* id being a dependency of the effect, fetchProduct runs up to its await;
\* the effect returns no cleanup, so earlier requests stay in flight
fetchProduct(id) ==
  /\ page # NoPage
  /\ id # page.id
  /\ Len(page.requests) <= MaxRoutes
  /\ page' = [page EXCEPT
                !.id = id,
                !.loading = TRUE,
                !.requests = Append(@, [id |-> id, state |-> "pending"])]
  /\ UNCHANGED backend

\* the request r is answered and fetchProduct goes on after its await: with
\* the product (ok), or with the error getProductById logs and throws again
\* when the response is not ok or the request fails
fetchProductResumes(r, ok) ==
  /\ page # NoPage
  /\ r \in DOMAIN page.requests
  /\ page.requests[r].state = "pending"
  /\ page' =
       IF ok
       THEN [page EXCEPT
               !.product = ProductOf(page.requests[r].id),
               !.error = NULL,
               !.loading = FALSE,
               !.requests[r].state = "ok"]
       ELSE [page EXCEPT
               !.product = null,
               !.error = "Ürün yüklenemedi",
               !.loading = FALSE,
               !.requests[r].state = "failed",
               !.console =
                  @ \o <<"Error fetching product "
                           \o ToString(page.requests[r].id) \o ":",
                         "Failed to load product:">>]
  /\ UNCHANGED backend

\* the page opened on product 1, next to a store nobody writes
InitPage ==
  /\ page = Mounted(1)
  /\ orders = [id \in OrderIds |-> "pending"]
  /\ history = <<>>
  /\ pc = [c \in Callers |-> "idle"]
  /\ call = [c \in Callers |-> NoCall]
  /\ out = NoOut
  /\ started = 0
  /\ succeeded = [id \in OrderIds |-> 0]
  /\ script = 0
  /\ created_at = <<>>
  /\ now = 0
  /\ totals = [id \in OrderIds |-> Decimal(10000)]
  /\ payments = <<>>
  /\ batch = NoBatch
  /\ seen = NoReport

\* the user goes from product to product while responses arrive in any order
NextPage ==
  \/ \E id \in ProductIds : fetchProduct(id)
  \/ \E r \in 1..(MaxRoutes + 1), ok \in BOOLEAN : fetchProductResumes(r, ok)

PageSpec == InitPage /\ [][NextPage]_vars

----------------------------------------------------------------------------
(* The transition graph as the specification states it *)

LegalSuccessors ==
  [ pending           |-> {"payment_pending", "cancelled"},
    payment_pending   |-> {"payment_completed", "cancelled"},
    payment_completed |-> {"processing", "refunded"},
    processing        |-> {"shipped", "cancelled"},
    shipped           |-> {"delivered", "cancelled"},
    delivered         |-> {"refunded"},
    cancelled         |-> {},
    refunded          |-> {} ]

Vocabulary == DOMAIN LegalSuccessors

IsLegalEdge(current, target) ==
  current \in Vocabulary /\ target \in LegalSuccessors[current]

TerminalStatuses == {"cancelled", "refunded"}

\* the ways of listing the members of a set, separated by ", "
Listings(S) ==
  IF S = {} THEN {"none"}
  ELSE {Join(l, ", ") :
          l \in {q \in [1..Cardinality(S) -> S] : {q[i] : i \in DOMAIN q} = S}}

----------------------------------------------------------------------------
(* Claims *)

\* C1: validateTransition(current, target) is valid with an empty reason
\* exactly when current is one of the 8 statuses and target is one of its
\* legal successors; otherwise it is invalid, with the reason "Invalid current
\* status: X" for an unrecognized current and else a "Cannot transition"
\* reason that lists exactly the successors of current, or "none".
C1_ValidateTransition ==
  out.op = "validateTransition" =>
    LET current == out.currentStatus
        target == out.newStatus
        r == out.result
    IN
    /\ DOMAIN r = {"valid", "reason"}
    /\ r.valid <=> IsLegalEdge(current, target)
    /\ r.valid => r.reason = ""
    /\ ~r.valid /\ current \notin Vocabulary =>
         r.reason = "Invalid current status: " \o current
    /\ ~r.valid /\ current \in Vocabulary =>
         \E listing \in Listings(LegalSuccessors[current]) :
           r.reason = "Cannot transition from " \o current \o " to " \o target
                      \o ". Allowed: " \o listing

\* pending -> shipped is rejected, naming payment_pending and cancelled
C1_Witness ==
  /\ out.op = "validateTransition"
  /\ out.currentStatus = "pending"
  /\ out.newStatus = "shipped"
  /\ out.result =
       [valid |-> FALSE,
        reason |-> "Cannot transition from pending to shipped. Allowed: payment_pending, cancelled"]

\* this step is a transitionOrderStatus call that returns right after its
\* status read (out' is its result, the store is read in the state before)
ReadReturned ==
  /\ out = NoOut
  /\ out' # NoOut
  /\ out'.op = "transitionOrderStatus"
  /\ pc' = pc

\* caller c's call passes validation in this step and goes on to the UPDATE
GoesOnToWrite(c) == pc[c] = "idle" /\ pc'[c] = "update"

\* caller c's call writes the orders table in this step
Writes(c) == pc[c] = "update" /\ pc'[c] = "log"

IsForced(options) == "force" \in DOMAIN options /\ options.force = TRUE

\* C2 as claimed: an order whose stored status is cancelled or refunded never
\* changes status again, whatever the targets and options of the calls.
C2_TerminalNeverChanges ==
  [][\A o \in DOMAIN orders :
       orders[o] \in TerminalStatuses => orders'[o] = orders[o]]_vars

\* C2 as amended: in calls made one after another, an order whose stored
\* status is cancelled or refunded is changed only by a call with force=true;
\* a call without force on it that targets a different status does not go on
\* to write, returns success=false and leaves orders and history as they are.
C2_TerminalChangesOnlyByForce ==
  [][/\ \A o \in DOMAIN orders :
          orders[o] \in TerminalStatuses /\ orders'[o] # orders[o] =>
            \E c \in Callers :
              Writes(c) /\ call[c].orderId = o /\ IsForced(call[c].options)
     /\ \A c \in Callers :
          GoesOnToWrite(c) /\ orders[call'[c].orderId] \in TerminalStatuses =>
            IsForced(call'[c].options)
     /\ ( /\ ReadReturned
          /\ ~out'.force
          /\ out'.orderId \in DOMAIN orders
          /\ orders[out'.orderId] \in TerminalStatuses
          /\ out'.newStatus # orders[out'.orderId] )
        => /\ out'.result.success = FALSE
           /\ orders' = orders
           /\ history' = history
    ]_vars

\* a call without force on a cancelled or refunded order has just been rejected
C2_Witness ==
  /\ out.op = "transitionOrderStatus"
  /\ ~out.force
  /\ out.orderId \in DOMAIN orders
  /\ orders[out.orderId] \in TerminalStatuses
  /\ out.newStatus \in Vocabulary \ {orders[out.orderId]}
  /\ out.result.success = FALSE
  /\ out.result.previousStatus = orders[out.orderId]

\* C3: a call that finds the stored status equal to its target returns
\* success=true, idempotent=true and previousStatus = newStatus = that status,
\* writes neither orders nor history, and never goes on to the UPDATE; this
\* for every call and all options, force=true included.
C3_IdempotentNoOp ==
  [][/\ \A c \in Callers :
          GoesOnToWrite(c) =>
            call'[c].newStatus # orders[call'[c].orderId]
     /\ ( /\ ReadReturned
          /\ out'.orderId \in DOMAIN orders
          /\ orders[out'.orderId] = out'.newStatus
          /\ "error" \notin DOMAIN out'.result )
        => /\ out'.threw = FALSE
           /\ "idempotent" \in DOMAIN out'.result
           /\ out'.result.success = TRUE
           /\ out'.result.idempotent = TRUE
           /\ out'.result.previousStatus = out'.newStatus
           /\ out'.result.newStatus = out'.newStatus
           /\ orders' = orders
           /\ history' = history
    ]_vars

\* a forced call on an order already in the target status has returned
\* idempotent=true, after an earlier transition was recorded
C3_Witness ==
  /\ out.op = "transitionOrderStatus"
  /\ out.force
  /\ "idempotent" \in DOMAIN out.result
  /\ out.result.idempotent = TRUE
  /\ out.orderId \in DOMAIN orders
  /\ orders[out.orderId] = out.newStatus
  /\ Len(HistoryOf(out.orderId)) = 1

\* the history row a call in flight is to append
ExpectedRow(a) ==
  [order_id |-> a.orderId,
   previous_status |-> a.currentStatus,
   new_status |-> a.newStatus,
   changed_by |-> IF "changedBy" \in DOMAIN a.options
                  THEN a.options.changedBy ELSE "system",
   reason |-> IF "reason" \in DOMAIN a.options THEN a.options.reason ELSE ""]

\* the step returns success=true with idempotent=false
ReturnsTransitioned ==
  /\ out' # NoOut
  /\ out'.op = "transitionOrderStatus"
  /\ "idempotent" \in DOMAIN out'.result
  /\ out'.result.success = TRUE
  /\ out'.result.idempotent = FALSE

\* C4 as claimed: the number of history entries of an order equals the number
\* of calls on it that returned success=true with idempotent=false.
C4_EntriesEqualSuccesses ==
  \A o \in OrderIds : Len(HistoryOf(o)) = succeeded[o]

\* C4 as amended: a call that returns success=true with idempotent=false has
\* appended exactly one history entry (order id, status read before the
\* change, target, changedBy, reason), or none when its history insert failed
\* (which it reports on the console only); every other step appends none; so
\* an order has at most as many history entries as successful non-idempotent
\* transitions.
C4_OneEntryUnlessInsertFails ==
  /\ [](\A o \in OrderIds : Len(HistoryOf(o)) <= succeeded[o])
  /\ [][(\A c \in Callers :
            GoesOnToWrite(c) =>
              call'[c].currentStatus = orders[call'[c].orderId])
        /\ (IF ReturnsTransitioned
            THEN \E c \in Callers :
                   /\ pc[c] = "log"
                   /\ pc'[c] = "idle"
                   /\ out'.orderId = call[c].orderId
                   /\ out'.result.previousStatus = call[c].currentStatus
                   /\ out'.result.newStatus = call[c].newStatus
                   /\ \/ /\ history' = Append(history, ExpectedRow(call[c]))
                         /\ out'.console = <<>>
                      \/ /\ history' = history
                         /\ out'.console =
                              <<"Error logging status change for order "
                                \o ToString(call[c].orderId) \o ":">>
            ELSE history' = history)
       ]_vars

\* an administrative transition has just been recorded with its own changedBy
\* and reason, on an order of which an earlier history insert failed
C4_Witness ==
  /\ out.op = "transitionOrderStatus"
  /\ out.result.success = TRUE
  /\ "idempotent" \in DOMAIN out.result
  /\ out.result.idempotent = FALSE
  /\ out.console = <<>>
  /\ Len(history) = 1
  /\ history[1] = [order_id |-> out.orderId,
                   previous_status |-> out.result.previousStatus,
                   new_status |-> out.result.newStatus,
                   changed_by |-> "admin",
                   reason |-> "manual correction"]
  /\ succeeded[out.orderId] = 2

\* C5: retrying a transition of an order to S, also while an earlier attempt
\* is between its status read and its status write, adds at most one history
\* entry for that change: no two history entries record the same change
\* (same order, same previous status, same new status).  Only calls without
\* force are made, so the legal graph lets no change happen twice.
C5_AtMostOneEntryPerChange ==
  \A i, j \in DOMAIN history :
    i < j =>
      ~ ( /\ history[i].order_id = history[j].order_id
          /\ history[i].previous_status = history[j].previous_status
          /\ history[i].new_status = history[j].new_status )

\* C6: a call without force whose target differs from the stored status and
\* is no legal successor of it does not go on to write; it returns
\* success=false with the reason of validateTransition, previousStatus = the
\* stored status and newStatus = null, and leaves orders and history alone.
C6_InvalidTransitionRejected ==
  [][/\ \A c \in Callers :
          GoesOnToWrite(c) /\ ~IsForced(call'[c].options) =>
            IsLegalEdge(orders[call'[c].orderId], call'[c].newStatus)
     /\ ( /\ ReadReturned
          /\ ~out'.force
          /\ out'.orderId \in DOMAIN orders
          /\ out'.newStatus # orders[out'.orderId]
          /\ ~IsLegalEdge(orders[out'.orderId], out'.newStatus)
          /\ "error" \notin DOMAIN out'.result )
        => /\ out'.threw = FALSE
           /\ out'.result =
                [success |-> FALSE,
                 message |-> validateTransition(orders[out'.orderId],
                                                out'.newStatus).reason,
                 previousStatus |-> orders[out'.orderId],
                 newStatus |-> NULL]
           /\ orders' = orders
           /\ history' = history
    ]_vars

\* pending -> shipped has just been rejected and the order is still pending
C6_Witness ==
  /\ out.op = "transitionOrderStatus"
  /\ ~out.force
  /\ out.newStatus = "shipped"
  /\ out.orderId \in DOMAIN orders
  /\ orders[out.orderId] = "pending"
  /\ out.result.success = FALSE
  /\ out.result.message =
       "Cannot transition from pending to shipped. Allowed: payment_pending, cancelled"
  /\ history = <<>>

\* the statuses of the claimed walk, from the fresh order to delivered
ClaimedWalk ==
  <<"pending", "payment_pending", "payment_completed", "processing",
    "shipped", "delivered">>

\* C7: for a pending order, the non-forced calls to payment_pending,
\* payment_completed, processing, shipped and delivered, issued one after the
\* other with no store failure, all return success=true with idempotent=false,
\* each appends exactly one history entry, and the order ends in delivered
\* with 5 history entries.
C7_HappyPath ==
  LET done == IF pc["webhook"] = "idle" THEN script ELSE script - 1 IN
  /\ (out.op = "transitionOrderStatus" /\ out.orderId = 1) =>
       /\ out.threw = FALSE
       /\ out.result =
            [success |-> TRUE,
             message |-> "Order 1 transitioned from " \o ClaimedWalk[script]
                         \o " to " \o ClaimedWalk[script + 1],
             previousStatus |-> ClaimedWalk[script],
             newStatus |-> ClaimedWalk[script + 1],
             idempotent |-> FALSE]
  /\ HistoryOf(1) =
       [k \in 1..done |->
          [order_id |-> 1, previous_status |-> ClaimedWalk[k],
           new_status |-> ClaimedWalk[k + 1], changed_by |-> "system",
           reason |-> ""]]
  /\ (script = 5 /\ pc["webhook"] = "idle") =>
       /\ orders[1] = "delivered"
       /\ Len(HistoryOf(1)) = 5

\* the fifth call has returned: order 1 is delivered with 5 history entries
C7_Witness ==
  /\ script = 5
  /\ pc["webhook"] = "idle"
  /\ out.op = "transitionOrderStatus"
  /\ out.orderId = 1
  /\ out.result.success = TRUE
  /\ orders[1] = "delivered"
  /\ Len(HistoryOf(1)) = 5

\* C8: after any calls, with any targets and options, the stored status of
\* every order is one of the 8 statuses of the vocabulary.
C8_StatusInVocabulary ==
  \A o \in DOMAIN orders :
    orders[o] \in {ORDER_STATUS[k] : k \in DOMAIN ORDER_STATUS}

\* C9: a call with an order id that has no row returns success=false with
\* the not-found message, previousStatus = null and newStatus = null, raises
\* nothing, never goes on to write, and leaves orders and history alone.
C9_NotFound ==
  [][(\A c \in Callers :
        GoesOnToWrite(c) => call'[c].orderId \in DOMAIN orders)
     /\ (( /\ ReadReturned
           /\ out'.orderId \notin DOMAIN orders
           /\ "error" \notin DOMAIN out'.result )
         => /\ out'.threw = FALSE
            /\ out'.result =
                 [success |-> FALSE,
                  message |-> "Order " \o ToString(out'.orderId) \o " not found",
                  previousStatus |-> NULL,
                  newStatus |-> NULL]
            /\ orders' = orders
            /\ history' = history)
    ]_vars

\* a forced call for an order id without a row has returned not-found
C9_Witness ==
  /\ out.op = "transitionOrderStatus"
  /\ out.force
  /\ out.orderId \notin DOMAIN orders
  /\ out.result.message = "Order 3 not found"
  /\ out.result.previousStatus = NULL

\* the step returns a failure without status fields, raises nothing and
\* leaves orders and history as they are
FailsWithoutWriting ==
  /\ out' # NoOut
  /\ out'.threw = FALSE
  /\ out'.result.success = FALSE
  /\ out'.result.previousStatus = NULL
  /\ out'.result.newStatus = NULL
  /\ orders' = orders
  /\ history' = history

\* C10: when the status read or the status update fails with a store error,
\* the call raises nothing and returns success=false with previousStatus =
\* null and newStatus = null; no history entry is appended and the stored
\* status is unchanged.
C10_StoreErrorIsReturned ==
  [][\A c \in Callers :
       /\ \A orderId \in OrderIds \cup {MissingId}, req \in Requests,
             err \in StoreErrors :
            transitionOrderStatus(c, orderId, req[1], req[2], err, TRUE)
              => FailsWithoutWriting
       /\ \A err \in QueryOutcomes, strict \in BOOLEAN :
            ( /\ UpdateOrderStatus(c, err, strict)
              /\ \/ err \in StoreErrors
                 \/ strict /\ call[c].newStatus \notin StatusEnum )
              => FailsWithoutWriting
    ]_vars

\* the UPDATE of a call on order 1 has failed: the call has returned the
\* error, order 1 is still pending and there is no history
C10_Witness ==
  /\ out.op = "transitionOrderStatus"
  /\ out.orderId = 1
  /\ out.console = <<"Error transitioning order 1:">>
  /\ out.result = [success |-> FALSE, message |-> "Error: ECONNRESET",
                   previousStatus |-> NULL, newStatus |-> NULL,
                   error |-> "ECONNRESET"]
  /\ orders[1] = "pending"
  /\ history = <<>>

\* C11: if the history insert fails after the status update has succeeded,
\* the call still returns success=true with idempotent=false and raises
\* nothing, the failed insert leaves the orders table as the update wrote it
\* (a target of the vocabulary is the stored status, no rollback), and no
\* history entry is added.
C11_HistoryFailureKeepsChange ==
  [][\A c \in Callers, err \in StoreErrors :
       logStatusChange(c, err) =>
         /\ out'.threw = FALSE
         /\ out'.result.success = TRUE
         /\ out'.result.idempotent = FALSE
         /\ out'.result.previousStatus = call[c].currentStatus
         /\ out'.result.newStatus = call[c].newStatus
         /\ "error" \notin DOMAIN out'.result
         /\ orders' = orders
         /\ call[c].newStatus \in Vocabulary =>
              orders'[call[c].orderId] = call[c].newStatus
         /\ history' = history
    ]_vars

\* the insert of pending -> payment_pending for order 1 has failed: the call
\* returned success, order 1 is payment_pending and has no history
C11_Witness ==
  /\ out.op = "transitionOrderStatus"
  /\ out.orderId = 1
  /\ out.console = <<"Error logging status change for order 1:">>
  /\ out.result.success = TRUE
  /\ out.result.idempotent = FALSE
  /\ out.result.newStatus = "payment_pending"
  /\ orders[1] = "payment_pending"
  /\ HistoryOf(1) = <<>>

\* C12: canTransitionTo(orderId, target) never changes an order status or a
\* history entry and raises nothing; it returns canTransition=false with
\* currentStatus=null when the order does not exist or the read fails,
\* canTransition=true with idempotent=true when target equals the stored
\* status (also for cancelled and refunded), and otherwise canTransition equal
\* to validateTransition(stored status, target).valid with the stored status
\* as currentStatus.
C12_PreviewIsReadOnly ==
  [][\A orderId \in OrderIds \cup {MissingId}, target \in StatusStrings :
       /\ \A err \in StoreErrors :
            canTransitionTo(orderId, target, err) =>
              /\ out'.threw = FALSE
              /\ out'.result.canTransition = FALSE
              /\ out'.result.currentStatus = NULL
              /\ orders' = orders /\ history' = history
              /\ created_at' = created_at
       /\ canTransitionTo(orderId, target, NoError) =>
            /\ out'.threw = FALSE
            /\ orders' = orders /\ history' = history
            /\ created_at' = created_at
            /\ IF orderId \notin DOMAIN orders
               THEN /\ out'.result.canTransition = FALSE
                    /\ out'.result.currentStatus = NULL
               ELSE IF orders[orderId] = target
               THEN /\ out'.result.canTransition = TRUE
                    /\ "idempotent" \in DOMAIN out'.result
                    /\ out'.result.idempotent = TRUE
                    /\ out'.result.currentStatus = target
               ELSE /\ out'.result.canTransition =
                         validateTransition(orders[orderId], target).valid
                    /\ out'.result.canTransition
                         = IsLegalEdge(orders[orderId], target)
                    /\ out'.result.currentStatus = orders[orderId]
    ]_vars

\* order 2 has been refunded and a preview of refunded answers yes, idempotent
C12_Witness ==
  /\ out.op = "canTransitionTo"
  /\ out.orderId = 2
  /\ out.targetStatus = "refunded"
  /\ orders[2] = "refunded"
  /\ out.result.canTransition = TRUE
  /\ out.result.idempotent = TRUE
  /\ out.result.currentStatus = "refunded"

\* C14: getOrderStatusHistory(orderId) returns exactly the history entries of
\* that order and none of another order, newest first: an entry appended by a
\* later transition comes before every entry appended by an earlier one.
C14_HistoryNewestFirst ==
  (out.op = "getOrderStatusHistory" /\ ~out.threw) =>
    LET rows == out.result IN
    /\ {rows[k].id : k \in DOMAIN rows} = HistoryIds(out.orderId)
    /\ Len(rows) = Cardinality(HistoryIds(out.orderId))
    /\ \A k \in DOMAIN rows :
         /\ rows[k].order_id = out.orderId
         /\ rows[k].previous_status = history[rows[k].id].previous_status
         /\ rows[k].new_status = history[rows[k].id].new_status
    /\ \A i, j \in DOMAIN rows : i < j => rows[i].id > rows[j].id

\* C15: no exported operation of the helper modules raises an exception to
\* its caller when a store query fails; the failure comes back as a result.
C15_NothingRaised ==
  out # NoOut => out.threw = FALSE

\* an object without its timestamp field
WithoutTimestamp(data) ==
  [k \in DOMAIN data \ {"timestamp"} |-> data[k]]

RECURSIVE SumOfAmounts(_)
\* the sum, in hundredths, of the amounts of the payments with an id in ids
SumOfAmounts(ids) ==
  IF ids = {} THEN 0
  ELSE LET i == CHOOSE j \in ids : TRUE IN
       payments[i].amount.decimal + SumOfAmounts(ids \ {i})

\* the completed payments of the order of payment p
CompletedWith(p) ==
  {i \in DOMAIN payments :
     /\ payments[i].order_id = payments[p].order_id
     /\ payments[i].status = "completed"}

\* payment p is one of several completed partial payments that sum to the
\* total of their order, which is payment_completed, and the payments have
\* distinct non-blank transaction ids
IsPartialPaymentOfPaidOrder(p) ==
  /\ p \in DOMAIN payments
  /\ payments[p].order_id \in DOMAIN orders
  /\ orders[payments[p].order_id] = "payment_completed"
  /\ p \in CompletedWith(p)
  /\ Cardinality(CompletedWith(p)) >= 2
  /\ SumOfAmounts(CompletedWith(p)) = totals[payments[p].order_id].decimal
  /\ \A i \in CompletedWith(p) :
       /\ payments[i].transaction_id \notin BlankStrings \cup {NULL}
       /\ \A j \in DOMAIN payments :
            j # i => payments[j].transaction_id # payments[i].transaction_id

\* C18: for an order whose completed payments are several partial payments
\* that sum to the order total (60 and 40 against 100, order
\* payment_completed, distinct transaction ids), validatePostPaymentState on
\* any one of them returns valid=true with totalPaid equal to the order total
\* and completedPayments equal to the number of completed payments.
C18_PartialPaymentsAreValid ==
  ( /\ out.op = "validatePostPaymentState"
    /\ out.queries = AllSucceed
    /\ IsPartialPaymentOfPaidOrder(out.paymentId) )
  => /\ out.result.valid = TRUE
     /\ out.result.data.totalPaid
          = totals[payments[out.paymentId].order_id].decimal
     /\ out.result.data.completedPayments
          = Cardinality(CompletedWith(out.paymentId))

\* C19: for a payment that exists with an existing order and no store
\* failure, validatePostPaymentState runs all five checks: its errors are the
\* errors of the payment status, order status, amount, transaction id and
\* total payments checks in that order, its warnings likewise, and valid is
\* true exactly when there is no error, whatever the warnings.
C19_AllFiveChecks ==
  ( /\ out.op = "validatePostPaymentState"
    /\ out.queries = AllSucceed
    /\ out.paymentId \in DOMAIN payments
    /\ payments[out.paymentId].order_id \in DOMAIN orders )
  => LET payment == payments[out.paymentId]
         order == [id |-> payment.order_id,
                   total_amount |-> totals[payment.order_id],
                   status |-> orders[payment.order_id]]
         siblings == RowsOf(payments,
                       {i \in DOMAIN payments :
                          payments[i].order_id = payment.order_id})
         checks == <<validatePaymentStatus(payment),
                     validateOrderStatus(order),
                     validatePaymentAmount(payment, order),
                     validateTransactionId(payment, NoError),
                     validateTotalPayments(siblings, order)>>
     IN
     /\ out.result.errors =
          checks[1].errors \o checks[2].errors \o checks[3].errors
          \o checks[4].errors \o checks[5].errors
     /\ out.result.warnings =
          checks[1].warnings \o checks[2].warnings \o checks[3].warnings
          \o checks[4].warnings \o checks[5].warnings
     /\ out.result.valid = (out.result.errors = <<>>)

\* a cancelled order paid in full: the report has a warning and is valid
C19_Witness ==
  /\ out.op = "validatePostPaymentState"
  /\ orders[1] = "cancelled"
  /\ out.result.valid = TRUE
  /\ out.result.errors = <<>>
  /\ out.result.warnings =
       <<"Order status 'cancelled' may need review after payment">>
  /\ out.result.data.totalPaid = 10000

\* the payment row exists / the payment row and its order row exist
HasPayment(p) == p \in DOMAIN payments
HasPaymentAndOrder(p) ==
  p \in DOMAIN payments /\ payments[p].order_id \in DOMAIN orders

\* the errors of the first four checks for payment p, when the uniqueness
\* query ends as errTxn says
CollectedErrors(p, errTxn) ==
  LET payment == payments[p]
      order == [id |-> payment.order_id,
                total_amount |-> totals[payment.order_id],
                status |-> orders[payment.order_id]]
  IN validatePaymentStatus(payment).errors
     \o validateOrderStatus(order).errors
     \o validatePaymentAmount(payment, order).errors
     \o validateTransactionId(payment, errTxn).errors

\* the report has exactly the one error given, no warning, and a data bag
\* with the fields given: no sub-validator has contributed
TerminalReport(report, error, fields) ==
  /\ report.valid = FALSE
  /\ report.errors = <<error>>
  /\ report.warnings = <<>>
  /\ DOMAIN report.data = fields

\* the not-found part of C20, for a call whose reads end as the errors say
NotFoundIsTerminal(p, errPayment, errOrder, report) ==
  /\ (errPayment = NoError /\ ~HasPayment(p)) =>
       TerminalReport(report, "Payment " \o ToString(p) \o " not found",
                      {"paymentId", "timestamp"})
  /\ (errPayment = NoError /\ errOrder = NoError /\ HasPayment(p)
       /\ ~HasPaymentAndOrder(p)) =>
       TerminalReport(report,
                      "Order " \o ToString(payments[p].order_id)
                      \o " not found for payment " \o ToString(p),
                      {"paymentId", "timestamp", "payment"})

\* the failure of one of the three reads of validatePostPaymentState leaves
\* the errors collected so far followed by a 'Validation error' entry
ReadFailureIsAppended(p, errPayment, errOrder, errTxn, errAll, report) ==
  /\ errPayment # NoError =>
       /\ report.valid = FALSE
       /\ report.errors = <<"Validation error: " \o errPayment>>
  /\ (errPayment = NoError /\ HasPayment(p) /\ errOrder # NoError) =>
       /\ report.valid = FALSE
       /\ report.errors = <<"Validation error: " \o errOrder>>
  /\ (errPayment = NoError /\ errOrder = NoError /\ HasPaymentAndOrder(p)
       /\ errAll # NoError) =>
       /\ report.valid = FALSE
       /\ report.errors = Append(CollectedErrors(p, errTxn),
                                 "Validation error: " \o errAll)

\* the uniqueness query is made and fails, every other query succeeds
OnlyUniquenessQueryFails(p, errPayment, errOrder, errTxn, errAll) ==
  /\ errPayment = NoError /\ errOrder = NoError /\ errAll = NoError
  /\ errTxn # NoError
  /\ HasPaymentAndOrder(p)
  /\ payments[p].transaction_id \notin BlankStrings \cup {NULL}

\* C20: validatePostPaymentState returns valid=false with exactly one error
\* and no warnings, and runs no sub-validator, when the payment does not
\* exist or its parent order does not exist; when a store query of the call
\* fails it returns valid=false with a 'Validation error' entry appended to
\* the errors collected so far; it raises nothing.
C20_FailedQueryIsValidationError ==
  out.op = "validatePostPaymentState" =>
    LET p == out.paymentId
        errPayment == out.queries[1]
        errOrder == out.queries[2]
        errTxn == out.queries[3]
        errAll == out.queries[4]
    IN
    /\ out.threw = FALSE
    /\ NotFoundIsTerminal(p, errPayment, errOrder, out.result)
    /\ ReadFailureIsAppended(p, errPayment, errOrder, errTxn, errAll,
                             out.result)
    /\ OnlyUniquenessQueryFails(p, errPayment, errOrder, errTxn, errAll)
         => /\ out.result.valid = FALSE
            /\ out.result.errors[Len(out.result.errors)]
                 = "Validation error: " \o errTxn

\* C20 as the code has it: the failure of the uniqueness query of the
\* transaction id check is not a 'Validation error': it is the error entry
\* 'Error checking transaction ID uniqueness' of that check, the total
\* payments check still runs, and the report is invalid.  The rest is as
\* stated.
C20_NotFoundAndFailedQueries ==
  out.op = "validatePostPaymentState" =>
    LET p == out.paymentId
        errPayment == out.queries[1]
        errOrder == out.queries[2]
        errTxn == out.queries[3]
        errAll == out.queries[4]
    IN
    /\ out.threw = FALSE
    /\ NotFoundIsTerminal(p, errPayment, errOrder, out.result)
    /\ ReadFailureIsAppended(p, errPayment, errOrder, errTxn, errAll,
                             out.result)
    /\ OnlyUniquenessQueryFails(p, errPayment, errOrder, errTxn, errAll)
         => /\ out.result.valid = FALSE
            /\ Includes(out.result.errors,
                        "Error checking transaction ID uniqueness: "
                        \o errTxn)
            /\ ~Includes(out.result.errors,
                         "Validation error: " \o errTxn)
            /\ "totalPaid" \in DOMAIN out.result.data

\* the last read of a call on a partial payment of a pending order has
\* failed: the errors of the checks come first, the failure last
C20_Witness ==
  /\ out.op = "validatePostPaymentState"
  /\ out.paymentId = 1
  /\ out.result.valid = FALSE
  /\ out.result.errors =
       <<"Order status 'pending' is inconsistent with completed payment",
         "Payment amount (60) does not match order total (100)",
         "Validation error: ECONNRESET">>
  /\ "totalPaid" \notin DOMAIN out.result.data

\* an object without the field key
Untagged(object, key) == [k \in DOMAIN object \ {key} |-> object[k]]

RECURSIVE OneAfterAnother(_, _, _)
\* transitionOrderStatus called on the entries of list one after another,
\* starting from the order statuses st: the results and the statuses at the
\* end.  got[i] tells whether a store query of call i failed (it carries the
\* error); such a call returns the error and changes nothing.
OneAfterAnother(st, list, got) ==
  IF Len(list) = 0 THEN [results |-> <<>>, store |-> st]
  ELSE
  LET t == Head(list)
      current == IF t.orderId \in DOMAIN st THEN st[t.orderId] ELSE NULL
      options == Opt(t, "options", EmptyObject)
      d == Decision(t.orderId, t.newStatus, Opt(options, "force", FALSE),
                    current)
      failed == "error" \in DOMAIN Head(got)
      result == IF failed THEN ErrorResult(Head(got).error)
                ELSE IF d.proceed
                THEN SuccessResult(t.orderId, current, t.newStatus)
                ELSE d.result
      after == IF ~failed /\ d.proceed
               THEN [st EXCEPT ![t.orderId] = EnumStored(t.newStatus)]
               ELSE st
      others == OneAfterAnother(after, Tail(list), Tail(got))
  IN [results |-> <<result>> \o others.results, store |-> others.store]

\* C13: batchTransitionOrders(list) and batchValidatePayments(list) return a
\* list of the length and in the order of their input; the i-th element
\* carries the id of the i-th entry and is otherwise the result of calling
\* transitionOrderStatus (validatePostPaymentState) on the entries one after
\* another; a failing entry neither keeps later entries from being applied
\* nor undoes earlier ones, also when an order id occurs more than once.
C13_BatchIsSequential ==
  /\ out.op = "batchTransitionOrders" =>
       /\ out.threw = FALSE
       /\ Len(out.result) = Len(out.list)
       /\ \A i \in DOMAIN out.list :
            out.result[i].orderId = out.list[i].orderId
       /\ LET expected == OneAfterAnother(out.before, out.list, out.result) IN
          /\ \A i \in DOMAIN out.list :
               Untagged(out.result[i], "orderId") = expected.results[i]
          /\ orders = expected.store
  /\ out.op = "batchValidatePayments" =>
       /\ out.threw = FALSE
       /\ Len(out.result) = Len(out.list)
       /\ \A i \in DOMAIN out.list :
            /\ out.result[i].paymentId = out.list[i].paymentId
            /\ Untagged(out.result[i], "paymentId") =
                 PostPaymentReport(out.list[i].paymentId, now,
                                   out.queries[i][1], out.queries[i][2],
                                   out.queries[i][3], out.queries[i][4])
       /\ orders = out.before

\* a batch with two entries for order 1: the first (pending -> shipped) was
\* rejected, the second (pending -> payment_pending) was applied
C13_Witness ==
  /\ out.op = "batchTransitionOrders"
  /\ Len(out.list) = 2
  /\ out.list[1] = [orderId |-> 1, newStatus |-> "shipped"]
  /\ out.list[2] = [orderId |-> 1, newStatus |-> "payment_pending"]
  /\ out.result[1].success = FALSE
  /\ out.result[2].success = TRUE
  /\ out.result[2].orderId = 1
  /\ orders[1] = "payment_pending"

\* the operations of the payment validator
ValidatorOps ==
  {"validatePostPaymentState", "validateOrderReadyForPayment",
   "validateTransactionId", "batchValidatePayments"}

\* C17: no operation of the payment validator changes an order, a payment or
\* a history record: the store after the call equals the store before it,
\* on every path including the not-found and store-error paths.
C17_ValidatorsAreReadOnly ==
  [][( \/ out = NoOut /\ out'.op \in ValidatorOps
       \/ batch.op = "batchValidatePayments"
       \/ batch'.op = "batchValidatePayments" )
     => /\ orders' = orders
        /\ totals' = totals
        /\ payments' = payments
        /\ history' = history
        /\ created_at' = created_at
    ]_vars

\* a batch validation of a payment without a row and of a payment whose last
\* read failed has returned; the orders are as before the batch
C17_Witness ==
  /\ out.op = "batchValidatePayments"
  /\ Len(out.result) = 2
  /\ out.result[1].errors = <<"Payment 3 not found">>
  /\ out.queries[2][4] # NoError
  /\ out.result[2].valid = FALSE
  /\ orders = out.before
  /\ Len(history) = 2

\* payment p is the only payment of its order, which is payment_completed;
\* it is completed, its amount is the order total and its transaction id is
\* not blank and is the transaction id of no other payment
IsFullPaymentOfPaidOrder(p) ==
  /\ p \in DOMAIN payments
  /\ payments[p].order_id \in DOMAIN orders
  /\ orders[payments[p].order_id] = "payment_completed"
  /\ {i \in DOMAIN payments : payments[i].order_id = payments[p].order_id}
       = {p}
  /\ payments[p].amount = totals[payments[p].order_id]
  /\ payments[p].status = "completed"
  /\ payments[p].transaction_id \notin BlankStrings \cup {NULL}
  /\ \A j \in DOMAIN payments :
       j # p => payments[j].transaction_id # payments[p].transaction_id

\* C21: for an order with status payment_completed and total T and a single
\* payment of that order with amount T, status completed and a non-blank
\* transaction id shared by no other payment, validatePostPaymentState
\* (whose queries all succeed) returns valid=true with an empty errors list
\* and an empty warnings list.
C21_FullPaymentIsValid ==
  ( /\ out.op = "validatePostPaymentState"
    /\ out.queries = AllSucceed
    /\ IsFullPaymentOfPaidOrder(out.paymentId) )
  => /\ out.threw = FALSE
     /\ out.result.valid = TRUE
     /\ out.result.errors = <<>>
     /\ out.result.warnings = <<>>

\* the report of payment 1, the full payment of order 1 (100.00), is back
C21_Witness ==
  /\ out.op = "validatePostPaymentState"
  /\ out.queries = AllSucceed
  /\ out.paymentId = 1
  /\ IsFullPaymentOfPaidOrder(1)
  /\ totals[1] = Decimal(10000)
  /\ out.result.valid = TRUE
  /\ out.result.data.totalPaid = 10000
  /\ out.result.data.completedPayments = 1

\* C22: for amounts taken from a bounded set of fixed-point values,
\* validatePaymentAmount(payment, order) reports the error 'does not match
\* order total' exactly when |payment amount - order total| > 0.01, reports
\* one warning exactly when the two amounts differ ('less than' when payment
\* < order, 'greater than' when payment > order), and returns valid=true
\* exactly when there is no error; an absent payment or order gives
\* valid=false with a 'missing' error.
C22_AmountWithinTolerance ==
  out.op = "validatePaymentAmount" =>
    IF out.payment = null \/ out.order = null
    THEN /\ out.result.valid = FALSE
         /\ out.result.errors = <<"Payment or order data missing">>
    ELSE
    ( ~ParsesToNaN(out.payment.amount) /\ ~ParsesToNaN(out.order.total_amount) )
    => LET paid == out.payment.amount.decimal
           total == out.order.total_amount.decimal
       IN
       /\ out.result.errors =
            IF Abs(paid - total) > 1
            THEN <<"Payment amount (" \o NumStr(paid)
                   \o ") does not match order total (" \o NumStr(total)
                   \o ")">>
            ELSE <<>>
       /\ out.result.warnings =
            IF paid < total
            THEN <<"Payment amount is less than order total">>
            ELSE IF paid > total
            THEN <<"Payment amount is greater than order total">>
            ELSE <<>>
       /\ out.result.valid = (out.result.errors = <<>>)

RECURSIVE SumOfCompleted(_)
\* the sum, in exact hundredths, of the amounts of the payments of the list
\* rows whose status is exactly 'completed'
SumOfCompleted(rows) ==
  IF Len(rows) = 0 THEN 0
  ELSE (IF Head(rows).status = "completed" THEN Head(rows).amount.decimal
        ELSE 0)
       + SumOfCompleted(Tail(rows))

\* C23: validateTotalPayments(payments, order) sums only the payments whose
\* status is exactly 'completed'; it reports an error exactly when that sum
\* < order total - 0.01, a warning and no error exactly when that sum >
\* order total + 0.01, and neither otherwise; it returns valid=false with
\* 'No payments found' when the list is empty and with a missing-order error
\* when the order is absent; its data carries totalPaid, orderAmount, the
\* count of completed payments and the count of all payments.
C23_TotalWithinTolerance ==
  out.op = "validateTotalPayments" =>
    IF out.order = null
    THEN /\ out.result.valid = FALSE
         /\ out.result.errors = <<"Order data missing">>
    ELSE IF Len(out.payments) = 0
    THEN /\ out.result.valid = FALSE
         /\ out.result.errors = <<"No payments found for order">>
    ELSE
    LET sum == SumOfCompleted(out.payments)
        total == out.order.total_amount.decimal
        IsCompleted(p) == p.status = "completed"
    IN
    /\ Len(out.result.errors) = (IF sum < total - 1 THEN 1 ELSE 0)
    /\ Len(out.result.warnings) = (IF sum > total + 1 THEN 1 ELSE 0)
    /\ out.result.valid = (out.result.errors = <<>>)
    /\ out.result.data =
         [totalPaid |-> sum, orderAmount |-> total,
          completedPayments |-> Len(SelectSeq(out.payments, IsCompleted)),
          totalPayments |-> Len(out.payments)]

\* C24: validateTransactionId(payment) returns valid=false when the payment
\* is absent or its transaction id is missing or blank, without querying the
\* store; otherwise it reports a duplicate-transaction error exactly when
\* some payment with a different id has the same transaction id, so a
\* payment is never reported as a duplicate of itself; a failure of the
\* uniqueness query is returned as an error entry with valid=false and is
\* not raised.
C24_TransactionIdIsUnique ==
  out.op = "validateTransactionId" =>
    /\ out.threw = FALSE
    /\ IF out.payment = null
       THEN /\ out.queries = <<>>
            /\ out.result.valid = FALSE
            /\ out.result.errors = <<"Payment data missing">>
       ELSE IF out.payment.transaction_id \in BlankStrings \cup {NULL}
       THEN /\ out.queries = <<>>
            /\ out.result.valid = FALSE
            /\ out.result.errors = <<"Transaction ID is missing">>
       ELSE
       /\ Len(out.queries) = 1
       /\ out.result.valid = (out.result.errors = <<>>)
       /\ out.result.errors =
            IF out.queries[1] # NoError
            THEN <<"Error checking transaction ID uniqueness: "
                   \o out.queries[1]>>
            ELSE IF \E i \in DOMAIN payments :
                      /\ i # out.payment.id
                      /\ payments[i].transaction_id
                           = out.payment.transaction_id
            THEN <<"Duplicate transaction ID found: "
                   \o out.payment.transaction_id>>
            ELSE <<>>

\* the stored payment 1, whose transaction id only it has, was checked and
\* found unique
C24_Witness ==
  /\ out.op = "validateTransactionId"
  /\ out.payment = payments[1]
  /\ out.payment.transaction_id = "tx-1"
  /\ out.queries = <<NoError>>
  /\ out.result.valid = TRUE
  /\ out.result.errors = <<>>

\* C25: validateOrderStatus(order) returns valid=false with an 'inconsistent
\* with completed payment' error exactly for the statuses pending and
\* payment_pending and for an absent order (whose error is 'Order data
\* missing'); returns valid=true with no warning for payment_completed,
\* processing, shipped and delivered; and returns valid=true with exactly one
\* warning for every other status value, including cancelled and refunded.
C25_OrderStatusVerdict ==
  out.op = "validateOrderStatus" =>
    IF out.order = null
    THEN /\ out.result.valid = FALSE
         /\ out.result.errors = <<"Order data missing">>
         /\ out.result.warnings = <<>>
    ELSE IF out.order.status \in {"pending", "payment_pending"}
    THEN /\ out.result.valid = FALSE
         /\ out.result.errors =
              <<"Order status '" \o out.order.status
                \o "' is inconsistent with completed payment">>
         /\ out.result.warnings = <<>>
    ELSE IF out.order.status
              \in {"payment_completed", "processing", "shipped", "delivered"}
    THEN /\ out.result.valid = TRUE
         /\ out.result.errors = <<>>
         /\ out.result.warnings = <<>>
    ELSE /\ out.result.valid = TRUE
         /\ out.result.errors = <<>>
         /\ Len(out.result.warnings) = 1

\* a cancelled order was checked: valid, with one warning
C25_Witness ==
  /\ out.op = "validateOrderStatus"
  /\ out.order = [status |-> "cancelled"]
  /\ out.result.valid = TRUE
  /\ out.result.warnings =
       <<"Order status 'cancelled' may need review after payment">>

\* C26: validatePaymentStatus(payment) returns valid=false with an 'invalid
\* for post-payment validation' error exactly for the statuses pending and
\* failed and for an absent payment (whose error is 'Payment data missing');
\* returns valid=true with no warning for completed and processing; and
\* returns valid=true with exactly one 'Unexpected payment status' warning
\* for every other status value, including refunded.
C26_PaymentStatusVerdict ==
  out.op = "validatePaymentStatus" =>
    IF out.payment = null
    THEN /\ out.result.valid = FALSE
         /\ out.result.errors = <<"Payment data missing">>
         /\ out.result.warnings = <<>>
    ELSE IF out.payment.status \in {"pending", "failed"}
    THEN /\ out.result.valid = FALSE
         /\ out.result.errors =
              <<"Payment status '" \o out.payment.status
                \o "' is invalid for post-payment validation">>
         /\ out.result.warnings = <<>>
    ELSE IF out.payment.status \in {"completed", "processing"}
    THEN /\ out.result.valid = TRUE
         /\ out.result.errors = <<>>
         /\ out.result.warnings = <<>>
    ELSE /\ out.result.valid = TRUE
         /\ out.result.errors = <<>>
         /\ out.result.warnings =
              <<"Unexpected payment status: " \o out.payment.status>>

\* a refunded payment was checked: valid, with the warning
C26_Witness ==
  /\ out.op = "validatePaymentStatus"
  /\ out.payment = [status |-> "refunded"]
  /\ out.result.valid = TRUE
  /\ out.result.warnings = <<"Unexpected payment status: refunded">>

\* C27: validateOrderReadyForPayment(orderId), when its read of the order
\* succeeds, returns valid=true exactly when the order exists, its status is
\* pending or payment_pending, and its total amount is strictly positive;
\* when the order exists and both the status and the amount conditions fail,
\* both errors are reported together; when the order does not exist only
\* the not-found error is reported.
C27_ReadyForPayment ==
  ( /\ out.op = "validateOrderReadyForPayment"
    /\ out.queries = <<NoError>> )
  => LET id == out.orderId
         statusError ==
           "Order status '" \o orders[id]
           \o "' not ready for payment. Expected: pending or payment_pending"
         amountError == "Order amount must be greater than zero"
         statusFine == orders[id] \in {"pending", "payment_pending"}
         amountFine == totals[id].decimal > 0
     IN
     /\ out.threw = FALSE
     /\ out.result.valid = ( /\ id \in DOMAIN orders
                             /\ statusFine
                             /\ amountFine )
     /\ id \notin DOMAIN orders =>
          out.result.errors = <<"Order " \o ToString(id) \o " not found">>
     /\ id \in DOMAIN orders =>
          out.result.errors =
            (IF statusFine THEN <<>> ELSE <<statusError>>)
            \o (IF amountFine THEN <<>> ELSE <<amountError>>)

\* a shipped order with total 0.00 was checked: both errors are reported
C27_Witness ==
  /\ out.op = "validateOrderReadyForPayment"
  /\ out.orderId = 1
  /\ orders[1] = "shipped"
  /\ totals[1] = Decimal(0)
  /\ out.result.valid = FALSE
  /\ Len(out.result.errors) = 2
  /\ out.result.errors[2] = "Order amount must be greater than zero"

\* the call returned for a payment with a row whose order has a row, and no
\* query of the call failed
ReportedInFull ==
  /\ out.op = "validatePostPaymentState"
  /\ out.queries = AllSucceed
  /\ HasPaymentAndOrder(out.paymentId)

\* C28: for an existing payment with an existing order, the data bag
\* returned by validatePostPaymentState contains the payment summary, the
\* order summary and the data payload of every sub-validator: paymentStatus,
\* orderStatus, paymentAmount/orderAmount/difference, transactionId and
\* totalPaid/orderAmount/completedPayments/totalPayments.
C28_DataHasEveryPayload ==
  ReportedInFull =>
    {"payment", "order", "paymentStatus", "orderStatus", "paymentAmount",
     "orderAmount", "difference", "transactionId", "totalPaid",
     "completedPayments", "totalPayments"} \subseteq DOMAIN out.result.data

\* C28 as the code has it: the data bag holds paymentId, timestamp, the
\* payment summary, the order summary and the payloads of the amount check
\* and of the total payments check, and the payload of the transaction id
\* check when the payment has a transaction id that is not blank; the
\* payloads of the two status checks are not in it (the statuses are in the
\* summaries).
C28_DataHasMergedPayloads ==
  ReportedInFull =>
    LET data == out.result.data
        payment == payments[out.paymentId]
        order == [id |-> payment.order_id,
                  total_amount |-> totals[payment.order_id],
                  status |-> orders[payment.order_id]]
        siblings == RowsOf(payments,
                      {i \in DOMAIN payments :
                         payments[i].order_id = payment.order_id})
        amount == validatePaymentAmount(payment, order).data
        total == validateTotalPayments(siblings, order).data
        hasId == payment.transaction_id \notin BlankStrings \cup {NULL}
    IN
    /\ DOMAIN data =
         {"paymentId", "timestamp", "payment", "order", "paymentAmount",
          "orderAmount", "difference", "totalPaid", "completedPayments",
          "totalPayments"}
         \cup (IF hasId THEN {"transactionId"} ELSE {})
    /\ data.payment = [id |-> payment.id, orderId |-> payment.order_id,
                       amount |-> payment.amount, status |-> payment.status]
    /\ data.order = [id |-> order.id, totalAmount |-> order.total_amount,
                     status |-> order.status]
    /\ data.paymentAmount = amount.paymentAmount
    /\ data.difference = amount.difference
    /\ \A k \in DOMAIN total : data[k] = total[k]
    /\ hasId => data.transactionId = payment.transaction_id

\* the report of the partial payment 1 (60.00 of 100.00, transaction tx-1):
\* the payloads are merged, the status payloads are not
C28_Witness ==
  /\ ReportedInFull
  /\ out.paymentId = 1
  /\ out.result.data.paymentAmount = 6000
  /\ out.result.data.difference = 4000
  /\ "transactionId" \in DOMAIN out.result.data
  /\ out.result.data.transactionId = "tx-1"
  /\ out.result.data.totalPayments = 2
  /\ out.result.data.payment.status = "completed"
  /\ "paymentStatus" \notin DOMAIN out.result.data

\* C29: when only non-forced transitionOrderStatus calls are made, every
\* change of an order's stored status is an edge of the legal transition
\* graph, also when two or more calls on the same order interleave between
\* their status read and their status write; in particular no interleaving
\* moves an order out of cancelled or refunded.
C29_EveryChangeIsLegal ==
  [][\A o \in DOMAIN orders :
       orders'[o] # orders[o] => IsLegalEdge(orders[o], orders'[o])]_vars

\* C30: in every execution, including interleaved transitionOrderStatus
\* calls on the same order, the previous_status recorded in a history entry
\* equals the order's stored status immediately before the status update
\* that this entry records, and its new_status equals the stored status
\* immediately after that update.
C30_EntryRecordsTheUpdate ==
  [][/\ \A c \in Callers :
          Writes(c) =>
            /\ ExpectedRow(call[c]).previous_status = orders[call[c].orderId]
            /\ ExpectedRow(call[c]).new_status = orders'[call[c].orderId]
     /\ history' # history =>
          \E c \in Callers :
            /\ pc[c] = "log"
            /\ pc'[c] = "idle"
            /\ history' = Append(history, ExpectedRow(call[c]))
    ]_vars

\* C31: in calls made one after another with no failing query, forced calls
\* included, the history of each order is a chain: the previous_status of
\* each entry is the new_status of the entry before it for the same order, no
\* entry has previous_status equal to new_status, and the new_status of the
\* newest entry of an order is the order's stored status once the call that
\* wrote it has returned.
C31_HistoryIsAChain ==
  \A o \in OrderIds :
    LET h == HistoryOf(o) IN
    /\ \A k \in 1..Len(h) :
         /\ h[k].previous_status # h[k].new_status
         /\ k > 1 => h[k].previous_status = h[k - 1].new_status
    /\ (Quiet /\ Len(h) > 0) => h[Len(h)].new_status = orders[o]


\* C32: with force=true, a target among the 8 statuses that differs from the
\* stored status and no failing query, a call on an existing order never
\* returns at its status read, whatever the stored status and the target: it
\* goes on to write, stores the target, appends one history entry (stored
\* status read, target) and returns success=true with idempotent=false.
\* Without force, a call whose target differs from the stored status goes on
\* to write only when the target is a legal successor, and fails otherwise.
C32_ForceSkipsValidation ==
  [][/\ ( /\ ReadReturned
          /\ out'.orderId \in DOMAIN orders
          /\ out'.newStatus # orders[out'.orderId] )
        => /\ ~out'.force
           /\ ~IsLegalEdge(orders[out'.orderId], out'.newStatus)
           /\ out'.result.success = FALSE
     /\ \A c \in Callers :
          /\ GoesOnToWrite(c) =>
               /\ call'[c].currentStatus = orders[call'[c].orderId]
               /\ call'[c].newStatus # call'[c].currentStatus
               /\ \/ IsForced(call'[c].options)
                  \/ IsLegalEdge(call'[c].currentStatus, call'[c].newStatus)
          /\ (Writes(c) /\ call[c].newStatus \in Vocabulary) =>
               orders' = [orders EXCEPT ![call[c].orderId] = call[c].newStatus]
          /\ (pc[c] = "log" /\ pc'[c] = "idle") =>
               /\ history' = Append(history, ExpectedRow(call[c]))
               /\ out'.threw = FALSE
               /\ out'.result.success = TRUE
               /\ out'.result.idempotent = FALSE
               /\ out'.result.previousStatus = call[c].currentStatus
               /\ out'.result.newStatus = call[c].newStatus
    ]_vars

\* a forced call has just moved order 1 from refunded, which has no legal
\* successor, to shipped, and recorded it
C32_Witness ==
  /\ out.op = "transitionOrderStatus"
  /\ out.force
  /\ out.orderId = 1
  /\ out.result.success = TRUE
  /\ "idempotent" \in DOMAIN out.result
  /\ out.result.idempotent = FALSE
  /\ out.result.previousStatus = "refunded"
  /\ out.result.newStatus = "shipped"
  /\ orders[1] = "shipped"
  /\ history = <<[order_id |-> 1, previous_status |-> "refunded",
                  new_status |-> "shipped", changed_by |-> "admin",
                  reason |-> "manual correction"]>>


\* the values of ORDER_STATUS
OrderStatusValues == {ORDER_STATUS[k] : k \in DOMAIN ORDER_STATUS}

\* C33: the keys of VALID_TRANSITIONS are exactly the 8 values of
\* ORDER_STATUS, every successor it lists is one of them, the statuses with no
\* successor are exactly cancelled and refunded, and when only non-forced
\* calls are made (interleaved or not, with or without failing queries) every
\* stored status and every status a call is about to write is one of the 8.
C33_VocabularyIsClosed ==
  /\ Cardinality(OrderStatusValues) = 8
  /\ DOMAIN VALID_TRANSITIONS = OrderStatusValues
  /\ \A s \in DOMAIN VALID_TRANSITIONS :
       \A i \in 1..Len(VALID_TRANSITIONS[s]) :
         VALID_TRANSITIONS[s][i] \in OrderStatusValues
  /\ {s \in DOMAIN VALID_TRANSITIONS : Len(VALID_TRANSITIONS[s]) = 0}
       = {ORDER_STATUS.CANCELLED, ORDER_STATUS.REFUNDED}
  /\ \A o \in DOMAIN orders : orders[o] \in OrderStatusValues
  /\ \A c \in Callers :
       pc[c] # "idle" => call[c].newStatus \in OrderStatusValues

\* a non-forced call with a target outside the vocabulary has just been
\* rejected for an order that an earlier call had moved to payment_pending
C33_Witness ==
  /\ out.op = "transitionOrderStatus"
  /\ ~out.force
  /\ out.orderId = 1
  /\ out.newStatus = "bogus"
  /\ out.result.success = FALSE
  /\ out.result.message =
       "Cannot transition from payment_pending to bogus. Allowed: payment_completed, cancelled"
  /\ orders[1] = "payment_pending"


\* the longest walk the legal graph allows
LongestPath ==
  <<"pending", "payment_pending", "payment_completed", "processing",
    "shipped", "delivered", "refunded">>

\* C34: when only non-forced calls are made, one after another, an order
\* never returns to a status it has left, at most 6 calls on one order return
\* success=true with idempotent=false, and once 6 have done so the order is
\* refunded and every further call on it that targets another status fails
\* without going on to write.
C34_NoWayBack ==
  /\ \A o \in OrderIds, s \in StatusEnum :
       [](orders[o] = s => [](orders[o] # s => [](orders[o] # s)))
  /\ [](\A o \in OrderIds :
          /\ succeeded[o] <= Len(LongestPath) - 1
          /\ (succeeded[o] = Len(LongestPath) - 1 /\ Quiet) =>
               orders[o] = LongestPath[Len(LongestPath)])
  /\ [][/\ \A c \in Callers :
             GoesOnToWrite(c) =>
               succeeded[call'[c].orderId] < Len(LongestPath) - 1
        /\ ( /\ ReadReturned
             /\ out'.orderId \in DOMAIN orders
             /\ succeeded[out'.orderId] = Len(LongestPath) - 1
             /\ out'.newStatus # orders[out'.orderId] )
           => out'.result.success = FALSE
       ]_vars

\* the sixth successful call on order 1 has returned: the order went along
\* the longest path and is refunded
C34_Witness ==
  /\ succeeded[1] = 6
  /\ out.op = "transitionOrderStatus"
  /\ out.orderId = 1
  /\ out.result.success = TRUE
  /\ out.result.previousStatus = "delivered"
  /\ orders[1] = "refunded"
  /\ HistoryOf(1) =
       [k \in 1..6 |->
          [order_id |-> 1, previous_status |-> LongestPath[k],
           new_status |-> LongestPath[k + 1], changed_by |-> "system",
           reason |-> ""]]


\* a non-forced transition of order o to target succeeds in the store as it
\* is: the order exists and the target is its status or a legal successor
Succeeds(o, target) ==
  /\ o \in DOMAIN orders
  /\ orders[o] = target \/ IsLegalEdge(orders[o], target)

\* C35: canTransitionTo(orderId, target), its read succeeding, answers
\* canTransition=true exactly when the store is such that the non-forced
\* transitionOrderStatus(orderId, target) called next, with nothing changed
\* in between and no failing query, returns success=true: in such a store
\* the call returns success at once (idempotent) or goes on to write, and a
\* call that went on to write returns success=true when its update does not
\* fail; in every other store the call returns success=false at its status
\* read and changes neither orders nor history.
C35_PreviewAgreesWithTransition ==
  [][/\ \A orderId \in OrderIds \cup {MissingId}, target \in StatusStrings :
          canTransitionTo(orderId, target, NoError) =>
            /\ out'.result.canTransition = Succeeds(orderId, target)
            /\ orders' = orders /\ history' = history
     /\ ( /\ ReadReturned
          /\ ~out'.force
          /\ "error" \notin DOMAIN out'.result )
        => /\ out'.result.success = Succeeds(out'.orderId, out'.newStatus)
           /\ orders' = orders /\ history' = history
     /\ \A c \in Callers :
          /\ (GoesOnToWrite(c) /\ ~IsForced(call'[c].options)) =>
               Succeeds(call'[c].orderId, call'[c].newStatus)
          /\ (pc[c] = "update" /\ ~IsForced(call[c].options)) =>
               \A strict \in BOOLEAN :
                 UpdateOrderStatus(c, NoError, strict) => Writes(c)
          /\ (pc[c] = "log" /\ pc'[c] = "idle") =>
               /\ out'.threw = FALSE
               /\ out'.result.success = TRUE
    ]_vars

\* order 1 has been moved from shipped to delivered and the preview of
\* refunded, its only legal successor, answers yes
C35_Witness ==
  /\ out.op = "canTransitionTo"
  /\ out.orderId = 1
  /\ out.targetStatus = "refunded"
  /\ out.result = [canTransition |-> TRUE, reason |-> "Transition is valid",
                   currentStatus |-> "delivered"]
  /\ orders[1] = "delivered"
  /\ Len(HistoryOf(1)) = 1
  /\ HistoryOf(1)[1].previous_status = "shipped"


\* C36: whenever validateOrderReadyForPayment(orderId) returns valid=true,
\* the store is one in which the non-forced transitionOrderStatus(orderId,
\* payment_completed) that processPaymentCompletion calls next returns
\* success=true: payment_completed is the stored status or a legal successor
\* of it, and a call started in such a store, and only in such a store,
\* returns the idempotent success or goes on to write.
C36_ReadyOrderCanBeCompleted ==
  [][/\ \A orderId \in OrderIds \cup {MissingId}, err \in QueryOutcomes :
          ( /\ validateOrderReadyForPayment(orderId, err)
            /\ out'.result.valid )
          => Succeeds(orderId, ORDER_STATUS.PAYMENT_COMPLETED)
     /\ ( /\ ReadReturned
          /\ "error" \notin DOMAIN out'.result )
        => out'.result.success
             = Succeeds(out'.orderId, ORDER_STATUS.PAYMENT_COMPLETED)
     /\ GoesOnToWrite("webhook") =>
          Succeeds(call'["webhook"].orderId, ORDER_STATUS.PAYMENT_COMPLETED)
    ]_vars


\* validateOrderStatus has just answered for the row of order o, without an
\* error, and with a warning exactly for cancelled and refunded
NoHardError(o) ==
  (out.op = "validateOrderStatus" /\ out.order.id = o) =>
    /\ out.result.valid = TRUE
    /\ out.result.errors = <<>>
    /\ out.result.warnings # <<>> <=> out.order.status \in TerminalStatuses

\* C37: once the stored status of an order has been payment_completed,
\* validateOrderStatus on the row of that order reports no error in any later
\* state that non-forced calls made one after another lead to: it returns
\* valid=true, with a warning exactly when the order is cancelled or refunded.
C37_NoErrorAfterPayment ==
  \A o \in OrderIds :
    [](orders[o] = ORDER_STATUS.PAYMENT_COMPLETED => []NoHardError(o))

\* order 2, paid and then taken to processing, has been cancelled: the check
\* passes with the warning that the status may need review
C37_Witness ==
  /\ out.op = "validateOrderStatus"
  /\ out.order.id = 2
  /\ orders[2] = "cancelled"
  /\ Len(HistoryOf(2)) = 4
  /\ HistoryOf(2)[2].new_status = "payment_completed"
  /\ out.result.valid = TRUE
  /\ out.result.warnings =
       <<"Order status 'cancelled' may need review after payment">>


\* C38: every step of a transitionOrderStatus call on order o, on success
\* and on every failure path, leaves alone the status of every other order,
\* the rows the orders table has, the total of every order, every payment
\* and every history entry there is, with the second it was written in; only
\* the UPDATE step changes a status, that of o, and only the last step of a
\* call appends to the history, one entry whose order id is o.
C38_OnlyItsOwnOrder ==
  [][/\ payments' = payments
     /\ totals' = totals
     /\ DOMAIN orders' = DOMAIN orders
     /\ orders' # orders =>
          \E c \in Callers :
            /\ Writes(c)
            /\ \A o \in DOMAIN orders :
                 o # call[c].orderId => orders'[o] = orders[o]
     /\ history' # history =>
          \E c \in Callers :
            /\ pc[c] = "log"
            /\ pc'[c] = "idle"
            /\ Len(history') = Len(history) + 1
            /\ SubSeq(history', 1, Len(history)) = history
            /\ history'[Len(history')].order_id = call[c].orderId
            /\ SubSeq(created_at', 1, Len(created_at)) = created_at
     /\ history' = history => created_at' = created_at
    ]_vars

\* a forced call has moved order 1 to pending again after an earlier change;
\* order 2, its two history entries and both payments are as they were
C38_Witness ==
  /\ out.op = "transitionOrderStatus"
  /\ out.orderId = 1
  /\ out.force
  /\ out.result.success = TRUE
  /\ out.result.newStatus = "pending"
  /\ Len(HistoryOf(1)) = 2
  /\ orders[2] = "payment_completed"
  /\ SubSeq(history, 1, 2) = HistoryOf(2)
  /\ DOMAIN payments = PaymentIds
  /\ \A i \in PaymentIds : payments[i].order_id = 2


\* C39: when the route id of the ProductDetail page has changed while
\* requests were in flight and every request has been answered with its
\* product, the page shows the product of the current route id, whatever the
\* order in which the answers came, with no error and loading = false.
C39_ShowsTheCurrentProduct ==
  ( /\ page # NoPage
    /\ \A r \in DOMAIN page.requests : page.requests[r].state = "ok" )
  => /\ page.loading = FALSE
     /\ page.error = NULL
     /\ page.product = ProductOf(page.id)

====
